---- MODULE Spec2Model ----
(***************************************************************************)
(* A model of the retrieval-augmented-generation backend of the notebook   *)
(* server: source ingestion (documentProcessor), the vector store          *)
(* (vectorService), the notebook / source / chat / admin request handlers  *)
(* and the citation assembly.  Database tables are state variables; every  *)
(* `await pool.query(...)` or external call of a handler is one step of a  *)
(* process, so that statements of concurrent requests and background tasks *)
(* interleave as they do on the database.                                  *)
(***************************************************************************)
EXTENDS Integers, Sequences, FiniteSets, TLC

VARIABLES
    notebooks,       \* table notebooks: the set of ids of existing rows
    nextNotebookId,  \* the serial of notebooks.id
    sources,         \* table sources: id -> row, the domain is the existing rows
    nextSourceId,    \* the serial of sources.id
    documents,       \* table documents (the vector store): a set of rows
    nextDocumentId,  \* the serial of documents.id
    tasks,           \* the processDocument calls started: a sequence of task records
    deletes,         \* the DELETE requests in flight: a sequence of request records
    requests,        \* the number of client requests accepted so far
    posts,           \* the POST requests for a source between check and INSERT
    puts,            \* the PUT requests for a source between check and UPDATE
    foreignKeys,     \* the schema declares the references to notebooks.id (ON DELETE CASCADE)
    nullableFlags,   \* the schema lets llm_configs.is_active and is_default be NULL
    chat_histories,  \* table chat_histories: a sequence of rows in id order
    nextChatId,      \* the serial of chat_histories.id
    turns,           \* the POST /send requests started: a sequence of request records
    clears,          \* the DELETE /history requests between check and DELETE
    llm_configs,     \* table llm_configs: id -> row
    nextConfigId,    \* the serial of llm_configs.id
    adminReqs,       \* the admin requests started: a sequence of request records
    call,            \* the last call of a pure function: its name, inputs and result
    audio,           \* the audio columns of notebooks: id -> [url, expires_at, status]
    now,             \* the server's clock, in hours
    audioTasks,      \* the audio requests and generation tasks in flight
    audioGet,        \* the answer to the last GET /api/audio/:notebookId
    nextAudioFile,   \* the next fresh audio file name (uuidv4)
    restarts,        \* how often the server process has crashed and restarted
    generation,      \* column notebooks.generation_status: id -> status
    genTasks         \* the POST /:id/generate requests and generation tasks in flight

ingestVars == <<notebooks, nextNotebookId, sources, nextSourceId, documents,
                nextDocumentId, tasks, deletes, requests, posts, puts,
                foreignKeys, nullableFlags>>
chatVars == <<chat_histories, nextChatId, turns, clears>>
adminVars == <<llm_configs, nextConfigId, adminReqs>>
genVars == <<generation, genTasks>>
audioVars == <<audio, now, audioTasks, audioGet, nextAudioFile, restarts,
               genVars>>
vars == <<notebooks, nextNotebookId, sources, nextSourceId, documents,
          nextDocumentId, tasks, deletes, requests, posts, puts,
          foreignKeys, nullableFlags, chat_histories, nextChatId, turns,
          clears, llm_configs, nextConfigId, adminReqs, call,
          audio, now, audioTasks, audioGet, nextAudioFile, restarts,
          generation, genTasks>>

(***************************************************************************)
(* Bounds of the model.                                                    *)
(***************************************************************************)
\* The number of client requests of a behaviour (requests that are answered
\* 404 change nothing and are not counted).
MaxRequests == 4
\* The number of sources submitted in a behaviour of Spec.
MaxSources == 1

(***************************************************************************)
(* Texts are sequences of one-character strings.                           *)
(***************************************************************************)
NL == "\n"

Range(s) == {s[i] : i \in 1..Len(s)}

Min(a, b) == IF a <= b THEN a ELSE b

\* String.prototype.substring(from, to) with 0-based, end-exclusive indices,
\* both clamped to the length of the text.
substring(text, from, to) ==
    SubSeq(text, Min(from, Len(text)) + 1, Min(to, Len(text)))

\* The characters the regular expression class \s matches (and trim()
\* strips): space, line feed, tab, carriage return, form feed, and after
\* them the vertical tab U+000B, the no-break space U+00A0, U+1680 and
\* U+FEFF.  The other members of the class (U+2000 to U+200A, U+2028,
\* U+2029, U+202F, U+205F, U+3000) cannot be written in a string of a
\* module, so no text of the model holds them.
IsWhitespace(c) ==
    c \in {" ", NL, "\t", "\r", "\f", "", " ", " ", "﻿"}

Repeat(c, n) == [i \in 1..n |-> c]

(***************************************************************************)
(* Chunker: splitTextIntoChunks (documentProcessor.js).                     *)
(***************************************************************************)
DefaultMaxChunkSize == 1000
DefaultOverlap == 200

NewlinePositions(text) == {i \in 1..Len(text) : text[i] = NL}

AllWhitespace(text, i, j) == \A k \in i..j : IsWhitespace(text[k])

\* The places where /\n\s*\n/ matches when the text is scanned left to
\* right: a match starts at the first newline of a whitespace run that holds
\* another newline, and (\s* is greedy) ends at the last newline of the run.
SeparatorStarts(text) ==
    LET nls == NewlinePositions(text) IN
    {p \in nls : /\ \E q \in nls : q > p /\ AllWhitespace(text, p, q)
                 /\ ~ \E q \in nls : q < p /\ AllWhitespace(text, q, p)}

SeparatorEnd(text, p) ==
    CHOOSE q \in NewlinePositions(text) :
        /\ q > p
        /\ AllWhitespace(text, p, q)
        /\ \A r \in NewlinePositions(text) :
               (r > p /\ AllWhitespace(text, p, r)) => r <= q

RECURSIVE SplitFrom(_, _, _)
SplitFrom(text, starts, from) ==
    LET later == {p \in starts : p >= from} IN
    IF later = {}
    THEN <<SubSeq(text, from, Len(text))>>
    ELSE LET p == CHOOSE x \in later : \A y \in later : x <= y
         IN  <<SubSeq(text, from, p - 1)>>
                 \o SplitFrom(text, starts, SeparatorEnd(text, p) + 1)

\* text.split(/\n\s*\n/)
SplitParagraphs(text) == SplitFrom(text, SeparatorStarts(text), 1)

\* Slices that start every maxChunkSize characters and share nothing.
SliceParagraph_disjoint(paragraph, maxChunkSize, overlap) ==
    LET n == (Len(paragraph) + maxChunkSize - 1) \div maxChunkSize
    IN  [j \in 1..n |-> substring(paragraph, (j - 1) * maxChunkSize,
                                  j * maxChunkSize)]

\* Slices that stop as soon as a window reaches the paragraph's end.
SliceParagraph_untilCovered(paragraph, maxChunkSize, overlap) ==
    LET step == maxChunkSize - overlap
        n == (Len(paragraph) - overlap + step - 1) \div step
    IN  [j \in 1..n |-> substring(paragraph, (j - 1) * step,
                                  (j - 1) * step + maxChunkSize)]

\* The while loop that slices one oversized paragraph: windows of
\* maxChunkSize characters starting every maxChunkSize - overlap characters
\* while the start is inside the paragraph.
SliceParagraph(paragraph, maxChunkSize, overlap) ==
    LET step == maxChunkSize - overlap
        n == (Len(paragraph) + step - 1) \div step
    IN  [j \in 1..n |-> substring(paragraph, (j - 1) * step,
                                  (j - 1) * step + maxChunkSize)]

\* The for loop over the paragraphs; st = [chunks, currentChunk, continued],
\* where continued records the positions in chunks of the slices of an
\* oversized paragraph after its first (each begins with the overlap).
RECURSIVE ChunkParagraphs(_, _, _, _, _)
ChunkParagraphs(paragraphs, i, st, maxChunkSize, overlap) ==
    IF i > Len(paragraphs) THEN st
    ELSE
      LET paragraph == paragraphs[i]
          next ==
            IF Len(paragraph) > maxChunkSize
            THEN LET before == IF st.currentChunk # <<>>
                               THEN Append(st.chunks, st.currentChunk)
                               ELSE st.chunks
                     slices == SliceParagraph(paragraph, maxChunkSize, overlap)
                 IN  [chunks |-> before \o slices,
                      currentChunk |-> <<>>,
                      continued |-> st.continued \cup
                          ((Len(before) + 2)..(Len(before) + Len(slices)))]
            ELSE IF Len(st.currentChunk) + Len(paragraph) > maxChunkSize
            THEN [chunks |-> Append(st.chunks, st.currentChunk),
                  currentChunk |-> paragraph,
                  continued |-> st.continued]
            ELSE [chunks |-> st.chunks,
                  currentChunk |->
                      st.currentChunk
                      \o (IF st.currentChunk # <<>> THEN <<NL, NL>> ELSE <<>>)
                      \o paragraph,
                  continued |-> st.continued]
      IN ChunkParagraphs(paragraphs, i + 1, next, maxChunkSize, overlap)

NoChunks == [chunks |-> <<>>, currentChunk |-> <<>>, continued |-> {}]

\* A chunker without the early return for short texts.
splitTextIntoChunks_noShortcut(text, maxChunkSize, overlap) ==
    LET st == ChunkParagraphs(SplitParagraphs(text), 1, NoChunks,
                              maxChunkSize, overlap)
    IN  IF st.currentChunk # <<>>
        THEN Append(st.chunks, st.currentChunk)
        ELSE st.chunks

splitTextIntoChunks(text, maxChunkSize, overlap) ==
    IF Len(text) <= maxChunkSize
    THEN <<text>>
    ELSE LET st == ChunkParagraphs(SplitParagraphs(text), 1, NoChunks,
                                   maxChunkSize, overlap)
         IN  IF st.currentChunk # <<>>
             THEN Append(st.chunks, st.currentChunk)
             ELSE st.chunks

\* The positions, in the chunks splitTextIntoChunks returns, of the slices
\* that continue an oversized paragraph.
ContinuationSlices(text, maxChunkSize, overlap) ==
    IF Len(text) <= maxChunkSize
    THEN {}
    ELSE ChunkParagraphs(SplitParagraphs(text), 1, NoChunks,
                         maxChunkSize, overlap).continued

\* With maxChunkSize - overlap <= 0 the while loop over an oversized
\* paragraph never advances past the paragraph's end: it pushes chunks
\* until memory is exhausted.
LoopsForever(text, maxChunkSize, overlap) ==
    /\ Len(text) > maxChunkSize
    /\ maxChunkSize - overlap <= 0
    /\ \E k \in DOMAIN SplitParagraphs(text) :
         Len(SplitParagraphs(text)[k]) > maxChunkSize

\* The outcome of a call of splitTextIntoChunks: the chunks returned, or
\* no return.
SplitOutcome(text, maxChunkSize, overlap) ==
    IF LoopsForever(text, maxChunkSize, overlap)
    THEN [outcome |-> "nonterminating", chunks |-> <<>>, continued |-> {}]
    ELSE [outcome |-> "returned",
          chunks |-> splitTextIntoChunks(text, maxChunkSize, overlap),
          continued |-> ContinuationSlices(text, maxChunkSize, overlap)]


(***************************************************************************)
(* Values of the model.                                                    *)
(***************************************************************************)
\* SQL NULL in a text column.
NULL == <<"NULL">>

\* The values of a boolean column: true, false and SQL NULL, which is what
\* the driver sends for a field that the body of the request leaves out.
SqlBooleans == {"true", "false"}
SqlNull == "null"

\* `column = true` in SQL and `if (value)` in JavaScript: neither false nor
\* NULL passes.
IsTrue(value) == value = "true"

\* A text longer than DefaultMaxChunkSize, of two paragraphs that do not fit
\* into one chunk together.
LongText == Repeat("a", 500) \o <<NL, NL>> \o Repeat("b", 501)

\* What the extractors can read from a file or a web page.
ExtractedTexts == {<<>>, <<"a">>, LongText}

\* The request bodies of POST /text: `!content` rejects the empty text.
PostedTexts == {<<"a">>, LongText}

\* The stand-in transcripts of extractTextFromYouTube and transcribeAudio:
\* a fixed headline, a blank line and a fixed notice.
YouTubeTranscript == <<"y", NL, NL, "s">>
AudioTranscript == <<"t", NL, NL, "s">>

Titles == {"A"}

\* Embedding vectors, as the providers may return them.
Embeddings == {<<1, 0>>, <<1, 1>>}

SummaryPlaceholder == "No se pudo generar un resumen para este contenido."
LLMSummary == "summary"

(***************************************************************************)
(* Vector store (vectorService): the documents table.                      *)
(***************************************************************************)
\* INSERT INTO documents (content, metadata, embedding) RETURNING id
insertDocument(docs, id, content, metadata, embedding) ==
    docs \cup {[id |-> id, content |-> content, metadata |-> metadata,
                embedding |-> embedding]}

\* DELETE FROM documents WHERE metadata->>'notebook_id' = $1
deleteDocumentsByNotebookId(docs, notebookId) ==
    {d \in docs : d.metadata.notebook_id # notebookId}

\* The delete with the other function's WHERE clause.
deleteDocumentsBySourceId_byNotebook(docs, sourceId) ==
    {d \in docs : d.metadata.notebook_id # sourceId}

\* DELETE FROM documents WHERE metadata->>'source_id' = $1
deleteDocumentsBySourceId(docs, sourceId) ==
    {d \in docs : d.metadata.source_id # sourceId}

Dot(u, v) == u[1] * v[1] + u[2] * v[2]

\* embedding <=> $1 is the cosine distance 1 - cos(u, v).  The vectors have
\* no negative component, so cos >= 0 and distances compare as the squared
\* cosines do, in the other direction: cos^2 = Dot(u,v)^2 / (|u|^2 |v|^2).
CloserOrEqual(q, u, v) ==
    Dot(q, u) * Dot(q, u) * Dot(v, v) >= Dot(q, v) * Dot(q, v) * Dot(u, u)

\* The query without its WHERE clause.
MatchingDocuments_unscoped(docs, notebookId) == docs

\* WHERE metadata->>'notebook_id' = $2
MatchingDocuments(docs, notebookId) ==
    {d \in docs : d.metadata.notebook_id = notebookId}

\* The query without its ORDER BY: any limit rows, in any order.
RECURSIVE NearestFirst_unordered(_, _, _)
NearestFirst_unordered(rows, q, limit) ==
    IF limit = 0 \/ rows = {} THEN {<<>>}
    ELSE UNION {
           {<<d>> \o rest :
              rest \in NearestFirst_unordered(rows \ {d}, q, limit - 1)}
           : d \in rows}

\* ORDER BY embedding <=> $1 LIMIT $3: every order the database may return
\* the rows in (rows at the same distance come in any order).
RECURSIVE NearestFirst(_, _, _)
NearestFirst(rows, q, limit) ==
    IF limit = 0 \/ rows = {} THEN {<<>>}
    ELSE UNION {
           {<<d>> \o rest : rest \in NearestFirst(rows \ {d}, q, limit - 1)}
           : d \in {x \in rows :
                      \A y \in rows : CloserOrEqual(q, x.embedding, y.embedding)}}

DefaultSearchLimit == 5

\* The rows searchDocuments can return for a query embedded as q.
searchDocuments(docs, q, notebookId, limit) ==
    NearestFirst(MatchingDocuments(docs, notebookId), q, limit)


(***************************************************************************)
(* Tables and rows.                                                        *)
(***************************************************************************)
NullSummary == "NULL"

\* INSERT of one row with the given primary key.
InsertRow(table, id, row) ==
    [i \in DOMAIN table \cup {id} |-> IF i = id THEN row ELSE table[i]]

\* DELETE of the rows whose primary keys are in ids.
DeleteRows(table, ids) == [i \in DOMAIN table \ ids |-> table[i]]

\* UPDATE ... WHERE id = $n: no row, no change and no error.
UpdateRow(table, id, row) ==
    IF id \in DOMAIN table THEN [table EXCEPT ![id] = row] ELSE table

\* The sequence without its i-th element.
RemoveAt(seq, i) == SubSeq(seq, 1, i - 1) \o SubSeq(seq, i + 1, Len(seq))

NoRow == [notebook_id |-> 0, title |-> "", type |-> "", content |-> NULL,
          processing_status |-> "", summary |-> NullSummary]

\* The row the three POST routes of sources.js insert.
NewSource(notebookId, title, type, content) ==
    [notebook_id |-> notebookId, title |-> title, type |-> type,
     content |-> content, processing_status |-> "processing",
     summary |-> NullSummary]

\* A processDocument(sourceId) call that has not run its first statement.
NewTask(sourceId) ==
    [sourceId |-> sourceId, pc |-> "select", source |-> NoRow,
     extractedText |-> <<>>, summary |-> NullSummary, chunks |-> <<>>,
     index |-> 0, error |-> "none"]

Failure == [ok |-> FALSE, text |-> <<>>]
Success(text) == [ok |-> TRUE, text |-> text]

\* The switch on source.type of processDocument: what each extractor can
\* return or throw.  Reading a file and fetching a page can fail; the two
\* stand-in transcripts cannot; an unknown type throws.
ExtractOutcomes(source) ==
    CASE source.type = "pdf" ->
           {Success(t) : t \in ExtractedTexts} \cup {Failure}
      [] source.type = "text" ->
           IF source.content # NULL /\ source.content # <<>>
           THEN {Success(source.content)}
           ELSE {Success(t) : t \in ExtractedTexts} \cup {Failure}
      [] source.type = "website" ->
           {Success(t) : t \in ExtractedTexts} \cup {Failure}
      [] source.type = "youtube" -> {Success(YouTubeTranscript)}
      [] source.type = "audio" -> {Success(AudioTranscript)}
      [] OTHER -> {Failure}

\* generateSummary: the text of the LLM's answer, or the placeholder when
\* the call throws.
SummaryOutcomes(text) == {LLMSummary, SummaryPlaceholder}

\* Metadata that numbers the chunks from 1.
ChunkMetadata_oneBased(task, index) ==
    [notebook_id |-> task.source.notebook_id, source_id |-> task.sourceId,
     source_title |-> task.source.title, source_type |-> task.source.type,
     chunk_index |-> index + 1]

\* The metadata processDocument attaches to chunk number index.
ChunkMetadata(task, index) ==
    [notebook_id |-> task.source.notebook_id, source_id |-> task.sourceId,
     source_title |-> task.source.title, source_type |-> task.source.type,
     chunk_index |-> index]


(***************************************************************************)
(* Notebooks (routes/notebooks.js) and sources (routes/sources.js).         *)
(***************************************************************************)
\* POST /api/notebooks
CreateNotebook ==
    /\ requests' = requests + 1
    /\ notebooks' = notebooks \cup {nextNotebookId}
    /\ nextNotebookId' = nextNotebookId + 1
    /\ UNCHANGED <<sources, nextSourceId, documents, nextDocumentId, tasks,
                   deletes, posts, puts, foreignKeys,
                   nullableFlags, chatVars, adminVars,
                   call, audioVars>>

\* A submission that starts the ingestion of its source twice.
StartProcessing_twice(started, sourceId) ==
    Append(Append(started, NewTask(sourceId)), NewTask(sourceId))

\* processDocument(source.id).catch(...): the call is started and not awaited.
StartProcessing(started, sourceId) == Append(started, NewTask(sourceId))

\* A POST request that passed the notebook check and awaits its INSERT.
NewPost(notebookId, title, type, content) ==
    [notebookId |-> notebookId, title |-> title, type |-> type,
     content |-> content]

\* The first await the three POST routes share: the notebook check, SELECT
\* id FROM notebooks (404 when the notebook is missing).  The route returns
\* to the event loop before its INSERT.
CreateSource(notebookId, title, type, content) ==
    /\ requests' = requests + 1
    /\ notebookId \in notebooks
    /\ posts' = Append(posts, NewPost(notebookId, title, type, content))
    /\ UNCHANGED <<notebooks, nextNotebookId, sources, nextSourceId,
                   documents, nextDocumentId, tasks, deletes, puts,
                   foreignKeys,
                   nullableFlags, chatVars, adminVars, call, audioVars>>

\* The INSERT of the row with status processing, and after it the start of
\* the ingestion.
InsertSource(i) ==
    /\ sources' = InsertRow(sources, nextSourceId,
                            NewSource(posts[i].notebookId, posts[i].title,
                                      posts[i].type, posts[i].content))
    /\ nextSourceId' = nextSourceId + 1
    /\ tasks' = StartProcessing(tasks, nextSourceId)
    /\ posts' = RemoveAt(posts, i)
    /\ UNCHANGED <<requests, notebooks, nextNotebookId, documents,
                   nextDocumentId, deletes, puts, foreignKeys,
                   nullableFlags, chatVars,
                   adminVars, call, audioVars>>

\* The second await of the POST routes, the notebook still there.
CreateSource_insert(i) ==
    /\ posts[i].notebookId \in notebooks
    /\ InsertSource(i)

\* The second await, the notebook deleted since the check, in a database
\* whose sources.notebook_id references notebooks: the INSERT throws, the
\* route answers 500, no row is written and no ingestion starts.
CreateSource_insertRejected(i) ==
    /\ foreignKeys
    /\ posts[i].notebookId \notin notebooks
    /\ posts' = RemoveAt(posts, i)
    /\ UNCHANGED <<requests, notebooks, nextNotebookId, sources, nextSourceId,
                   documents, nextDocumentId, tasks, deletes, puts,
                   foreignKeys,
                   nullableFlags, chatVars, adminVars, call, audioVars>>

\* The second await, the notebook deleted since the check, in a database
\* without that reference: the row of a notebook that no longer exists is
\* written and its ingestion starts.
CreateSource_insertOrphan(i) ==
    /\ ~foreignKeys
    /\ posts[i].notebookId \notin notebooks
    /\ InsertSource(i)

\* POST /upload/:notebookId, the type taken from the file's MIME type.
PostUpload ==
    \E notebookId \in notebooks, title \in Titles,
       type \in {"pdf", "audio", "text"} :
        CreateSource(notebookId, title, type, NULL)

\* POST /text/:notebookId with a body from contents
PostTextOf(contents) ==
    \E notebookId \in notebooks, title \in Titles, content \in contents :
        CreateSource(notebookId, title, "text", content)

PostText == PostTextOf(PostedTexts)

\* POST /url/:notebookId
PostUrl ==
    \E notebookId \in notebooks, title \in Titles,
       type \in {"website", "youtube"} :
        CreateSource(notebookId, title, type, NULL)

\* The titles in the bodies of PUT /api/sources/:id.
NewTitles == {"B"}

\* PUT /api/sources/:id, the ownership check: the source is found through
\* its notebook (no row of the JOIN answers 404 and changes nothing).
UpdateSource_check ==
    /\ requests' = requests + 1
    /\ \E id \in DOMAIN sources, title \in NewTitles :
         /\ sources[id].notebook_id \in notebooks
         /\ puts' = Append(puts, [id |-> id, title |-> title])
    /\ UNCHANGED <<notebooks, nextNotebookId, sources, nextSourceId,
                   documents, nextDocumentId, tasks, deletes, posts,
                   foreignKeys,
                   nullableFlags, chatVars, adminVars, call, audioVars>>

\* UPDATE sources SET title = $1 WHERE id = $2; the request answers 200.
UpdateSource_update(i) ==
    /\ LET id == puts[i].id
       IN  sources' =
             IF id \in DOMAIN sources
             THEN UpdateRow(sources, id,
                            [sources[id] EXCEPT !.title = puts[i].title])
             ELSE sources
    /\ puts' = RemoveAt(puts, i)
    /\ UNCHANGED <<requests, notebooks, nextNotebookId, nextSourceId,
                   documents, nextDocumentId, tasks, deletes, posts,
                   foreignKeys,
                   nullableFlags, chatVars, adminVars, call, audioVars>>

(***************************************************************************)
(* processDocument (documentProcessor.js), one action per await.           *)
(***************************************************************************)
SetTask(i, task) ==
    tasks' = [tasks EXCEPT ![i] = task]

\* SELECT * FROM sources WHERE id = $1; a missing row throws.
processDocument_select(i) ==
    /\ tasks[i].pc = "select"
    /\ IF tasks[i].sourceId \in DOMAIN sources
       THEN SetTask(i, [tasks[i] EXCEPT !.source = sources[tasks[i].sourceId],
                                        !.pc = "notebook"])
       ELSE SetTask(i, [tasks[i] EXCEPT !.error = "not_found", !.pc = "catch"])
    /\ UNCHANGED <<requests, notebooks, nextNotebookId, posts, puts,
                   foreignKeys,
                   nullableFlags, sources, nextSourceId,
                   documents, nextDocumentId, deletes, chatVars, adminVars, call,
                   audioVars>>

\* SELECT title FROM notebooks WHERE id = $1: the title, or the stand-in
\* title when the notebook has no row; neither is used by a later step.
processDocument_notebook(i) ==
    /\ tasks[i].pc = "notebook"
    /\ SetTask(i, [tasks[i] EXCEPT !.pc = "extract"])
    /\ UNCHANGED <<requests, notebooks, nextNotebookId, posts, puts,
                   foreignKeys,
                   nullableFlags, sources, nextSourceId,
                   documents, nextDocumentId, deletes, chatVars, adminVars, call,
                   audioVars>>

\* The switch on source.type.
processDocument_extract(i) ==
    /\ tasks[i].pc = "extract"
    /\ \E o \in ExtractOutcomes(tasks[i].source) :
         IF o.ok
         THEN SetTask(i, [tasks[i] EXCEPT !.extractedText = o.text,
                                          !.pc = "summary"])
         ELSE SetTask(i, [tasks[i] EXCEPT !.error = "extract", !.pc = "catch"])
    /\ UNCHANGED <<requests, notebooks, nextNotebookId, posts, puts,
                   foreignKeys,
                   nullableFlags, sources, nextSourceId,
                   documents, nextDocumentId, deletes, chatVars, adminVars, call,
                   audioVars>>

\* An ingestion that a failed summary call sends to the catch block.
processDocument_summary_throws(i) ==
    /\ tasks[i].pc = "summary"
    /\ \E summary \in SummaryOutcomes(tasks[i].extractedText) :
         IF summary = SummaryPlaceholder
         THEN SetTask(i, [tasks[i] EXCEPT !.error = "summary", !.pc = "catch"])
         ELSE SetTask(i, [tasks[i] EXCEPT !.summary = summary, !.pc = "update"])
    /\ UNCHANGED <<requests, notebooks, nextNotebookId, posts, puts,
                   foreignKeys,
                   nullableFlags, sources, nextSourceId,
                   documents, nextDocumentId, deletes, chatVars, adminVars, call,
                   audioVars>>

\* summary = await generateSummary(extractedText)
processDocument_summary(i) ==
    /\ tasks[i].pc = "summary"
    /\ \E summary \in SummaryOutcomes(tasks[i].extractedText) :
         SetTask(i, [tasks[i] EXCEPT !.summary = summary, !.pc = "update"])
    /\ UNCHANGED <<requests, notebooks, nextNotebookId, posts, puts,
                   foreignKeys,
                   nullableFlags, sources, nextSourceId,
                   documents, nextDocumentId, deletes, chatVars, adminVars, call,
                   audioVars>>

\* The row after UPDATE sources SET content, summary, processing_status.
CompletedRow(row, extractedText, summary) ==
    [row EXCEPT !.content = extractedText, !.summary = summary,
                !.processing_status = "completed"]

\* A catch block that leaves the status as it is.
FailedRow_unwritten(row) == row

\* The row after UPDATE sources SET processing_status = 'failed'.
FailedRow(row) == [row EXCEPT !.processing_status = "failed"]

\* The UPDATE to completed; when it returns the text is split into chunks
\* and the loop over chunks.entries() begins.
processDocument_update(i) ==
    /\ tasks[i].pc = "update"
    /\ LET id == tasks[i].sourceId
           chunks == splitTextIntoChunks(tasks[i].extractedText,
                                         DefaultMaxChunkSize, DefaultOverlap)
       IN  /\ sources' =
                 IF id \in DOMAIN sources
                 THEN UpdateRow(sources, id,
                                CompletedRow(sources[id], tasks[i].extractedText,
                                             tasks[i].summary))
                 ELSE sources
           /\ SetTask(i, [tasks[i] EXCEPT
                            !.chunks = chunks, !.index = 0,
                            !.pc = IF chunks = <<>> THEN "done" ELSE "insert"])
    /\ UNCHANGED <<requests, notebooks, nextNotebookId, posts, puts,
                   foreignKeys,
                   nullableFlags, nextSourceId,
                   documents, nextDocumentId, deletes, chatVars, adminVars, call,
                   audioVars>>

\* The task after chunk number task.index has been inserted.
AfterInsert(task) ==
    [task EXCEPT !.index = task.index + 1,
                 !.pc = IF task.index + 1 < Len(task.chunks)
                        THEN "insert" ELSE "done"]

\* An insert loop that removes the source's chunks when an insert throws.
processDocument_insert_rollback(i) ==
    /\ tasks[i].pc = "insert"
    /\ \/ /\ SetTask(i, [tasks[i] EXCEPT !.error = "insert", !.pc = "catch"])
          /\ documents' = deleteDocumentsBySourceId(documents,
                                                    tasks[i].sourceId)
          /\ UNCHANGED nextDocumentId
       \/ \E embedding \in Embeddings :
            /\ documents' =
                 insertDocument(documents, nextDocumentId,
                                tasks[i].chunks[tasks[i].index + 1],
                                ChunkMetadata(tasks[i], tasks[i].index),
                                embedding)
            /\ nextDocumentId' = nextDocumentId + 1
            /\ SetTask(i, AfterInsert(tasks[i]))
    /\ UNCHANGED <<requests, notebooks, nextNotebookId, posts, puts,
                   foreignKeys,
                   nullableFlags, sources, nextSourceId,
                   deletes, chatVars, adminVars, call,
                   audioVars>>

\* await insertDocument(chunk, {...}) for the chunk at tasks[i].index:
\* generateEmbeddings or the INSERT throws, or the row is stored.
processDocument_insert(i) ==
    /\ tasks[i].pc = "insert"
    /\ \/ /\ SetTask(i, [tasks[i] EXCEPT !.error = "insert", !.pc = "catch"])
          /\ UNCHANGED <<documents, nextDocumentId>>
       \/ \E embedding \in Embeddings :
            /\ documents' =
                 insertDocument(documents, nextDocumentId,
                                tasks[i].chunks[tasks[i].index + 1],
                                ChunkMetadata(tasks[i], tasks[i].index),
                                embedding)
            /\ nextDocumentId' = nextDocumentId + 1
            /\ SetTask(i, AfterInsert(tasks[i]))
    /\ UNCHANGED <<requests, notebooks, nextNotebookId, posts, puts,
                   foreignKeys,
                   nullableFlags, sources, nextSourceId,
                   deletes, chatVars, adminVars, call,
                   audioVars>>

\* A catch block that writes failed and starts the ingestion again.
processDocument_catch_retries(i) ==
    /\ tasks[i].pc = "catch"
    /\ LET id == tasks[i].sourceId
       IN  sources' = IF id \in DOMAIN sources
                      THEN UpdateRow(sources, id, FailedRow(sources[id]))
                      ELSE sources
    /\ SetTask(i, [tasks[i] EXCEPT !.pc = "select"])
    /\ UNCHANGED <<requests, notebooks, nextNotebookId, posts, puts,
                   foreignKeys,
                   nullableFlags, nextSourceId,
                   documents, nextDocumentId, deletes, chatVars, adminVars, call,
                   audioVars>>

\* The catch block: UPDATE sources SET processing_status = 'failed'.
processDocument_catch(i) ==
    /\ tasks[i].pc = "catch"
    /\ LET id == tasks[i].sourceId
       IN  sources' = IF id \in DOMAIN sources
                      THEN UpdateRow(sources, id, FailedRow(sources[id]))
                      ELSE sources
    /\ SetTask(i, [tasks[i] EXCEPT !.pc = "done"])
    /\ UNCHANGED <<requests, notebooks, nextNotebookId, posts, puts,
                   foreignKeys,
                   nullableFlags, nextSourceId,
                   documents, nextDocumentId, deletes, chatVars, adminVars, call,
                   audioVars>>

(***************************************************************************)
(* DELETE /api/notebooks/:id and DELETE /api/sources/:id.                   *)
(***************************************************************************)
\* The ownership check found the notebook: the request goes on (a missing
\* notebook answers 404 and changes nothing).
DeleteNotebook_check ==
    /\ requests' = requests + 1
    /\ \E id \in notebooks :
         deletes' = Append(deletes, [kind |-> "notebook", id |-> id,
                                     pc |-> "vectors"])
    /\ UNCHANGED <<notebooks, nextNotebookId, posts, puts,
                   foreignKeys,
                   nullableFlags, sources, nextSourceId, documents,
                   nextDocumentId, tasks, chatVars, adminVars, call,
                   audioVars>>

\* await deleteDocumentsByNotebookId(id)
DeleteNotebook_vectors(i) ==
    /\ deletes[i].kind = "notebook" /\ deletes[i].pc = "vectors"
    /\ documents' = deleteDocumentsByNotebookId(documents, deletes[i].id)
    /\ deletes' = [deletes EXCEPT ![i].pc = "row"]
    /\ UNCHANGED <<requests, notebooks, nextNotebookId, posts, puts,
                   foreignKeys,
                   nullableFlags, sources, nextSourceId,
                   nextDocumentId, tasks, chatVars, adminVars, call,
                   audioVars>>

\* The rows of a table that ON DELETE CASCADE removes with the notebook.
SourcesOfNotebook(table, notebookId) ==
    {s \in DOMAIN table : table[s].notebook_id = notebookId}

\* DELETE FROM notebooks WHERE id = $1.  Where the schema declares the
\* references with ON DELETE CASCADE the notebook's sources and its chat go
\* with it; where it does not, their rows stay.
DeleteNotebook_row(i) ==
    /\ deletes[i].kind = "notebook" /\ deletes[i].pc = "row"
    /\ notebooks' = notebooks \ {deletes[i].id}
    /\ sources' =
         IF foreignKeys
         THEN DeleteRows(sources, SourcesOfNotebook(sources, deletes[i].id))
         ELSE sources
    /\ chat_histories' =
         IF foreignKeys
         THEN SelectSeq(chat_histories,
                        LAMBDA m : m.session_id # deletes[i].id)
         ELSE chat_histories
    /\ deletes' = RemoveAt(deletes, i)
    /\ audio' = DeleteRows(audio, {deletes[i].id})
    /\ generation' = DeleteRows(generation, {deletes[i].id})
    /\ UNCHANGED <<requests, nextNotebookId, posts, puts,
                   foreignKeys,
                   nullableFlags, nextSourceId, documents,
                   nextDocumentId, tasks, nextChatId, clears, turns, adminVars, call,
                   now, audioTasks, audioGet, nextAudioFile, restarts,
                   genTasks>>

\* The ownership check found the source through its notebook (SELECT s.*
\* FROM sources s JOIN notebooks n): the request goes on.
DeleteSource_check ==
    /\ requests' = requests + 1
    /\ \E id \in DOMAIN sources :
         /\ sources[id].notebook_id \in notebooks
         /\ deletes' = Append(deletes, [kind |-> "source", id |-> id,
                                        pc |-> "vectors"])
    /\ UNCHANGED <<notebooks, nextNotebookId, posts, puts,
                   foreignKeys,
                   nullableFlags, sources, nextSourceId, documents,
                   nextDocumentId, tasks, chatVars, adminVars, call,
                   audioVars>>

\* await deleteDocumentsBySourceId(id)
DeleteSource_vectors(i) ==
    /\ deletes[i].kind = "source" /\ deletes[i].pc = "vectors"
    /\ documents' = deleteDocumentsBySourceId(documents, deletes[i].id)
    /\ deletes' = [deletes EXCEPT ![i].pc = "row"]
    /\ UNCHANGED <<requests, notebooks, nextNotebookId, posts, puts,
                   foreignKeys,
                   nullableFlags, sources, nextSourceId,
                   nextDocumentId, tasks, chatVars, adminVars, call,
                   audioVars>>

\* DELETE FROM sources WHERE id = $1
DeleteSource_row(i) ==
    /\ deletes[i].kind = "source" /\ deletes[i].pc = "row"
    /\ sources' = DeleteRows(sources, {deletes[i].id})
    /\ deletes' = RemoveAt(deletes, i)
    /\ UNCHANGED <<requests, notebooks, nextNotebookId, posts, puts,
                   foreignKeys,
                   nullableFlags, nextSourceId,
                   documents, nextDocumentId, tasks, chatVars, adminVars, call,
                   audioVars>>

(***************************************************************************)
(* The ingestion specification: notebooks, sources, their background       *)
(* ingestion and their deletion, on an empty database.                     *)
(***************************************************************************)
\* SQL NULL in a timestamp column; the clock starts after it.
NoTime == 0
StartTime == 1

NoGet == [op |-> "none"]

\* No notebook has audio columns set, no audio request is in flight and the
\* process has not crashed.
NoAudio ==
    /\ audio = <<>>
    /\ now = StartTime
    /\ audioTasks = <<>>
    /\ audioGet = NoGet
    /\ nextAudioFile = 1
    /\ restarts = 0
    /\ generation = <<>>
    /\ genTasks = <<>>

NoCall == [op |-> "none"]

\* The database the server starts on.  Its tables are created, and may be
\* seeded, by database/init.sql, which the database container runs at its
\* first start (docker-compose.yml); initializeDatabase adds the migrations
\* table.  The script is not part of the sources, so the schema is known
\* by the statements of the routes only: whether it declares the references
\* to notebooks.id, whether the boolean columns of llm_configs are NOT NULL
\* and which configuration it seeds is open.
InitialConfigs ==
    {<<>>,
     <<[provider |-> "openai", model |-> "m", is_active |-> "true",
        is_default |-> "true"]>>,
     <<[provider |-> "anthropic", model |-> "c3", is_active |-> "true",
        is_default |-> "true"]>>}

\* The database with the notebooks ids, no source, no chunk and no message,
\* and no request in flight.
Database(ids, fks, nullable, configs) ==
    /\ notebooks = ids
    /\ nextNotebookId = Cardinality(ids) + 1
    /\ sources = <<>>
    /\ nextSourceId = 1
    /\ documents = {}
    /\ nextDocumentId = 1
    /\ tasks = <<>>
    /\ deletes = <<>>
    /\ posts = <<>>
    /\ puts = <<>>
    /\ foreignKeys = fks
    /\ nullableFlags = nullable
    /\ requests = 0
    /\ chat_histories = <<>>
    /\ nextChatId = 1
    /\ turns = <<>>
    /\ clears = <<>>
    /\ llm_configs = configs
    /\ nextConfigId = Len(configs) + 1
    /\ adminReqs = <<>>
    /\ call = NoCall
    /\ NoAudio

\* The empty database with the references declared and the flags of
\* llm_configs nullable: the tables of a fresh installation that seeds
\* nothing.
InitEmpty == Database({}, TRUE, TRUE, <<>>)

Init ==
    \E fks \in BOOLEAN, nullable \in BOOLEAN, configs \in InitialConfigs :
        Database({}, fks, nullable, configs)

processDocument ==
    \E i \in DOMAIN tasks :
        \/ processDocument_select(i)
        \/ processDocument_notebook(i)
        \/ processDocument_extract(i)
        \/ processDocument_summary(i)
        \/ processDocument_update(i)
        \/ processDocument_insert(i)
        \/ processDocument_catch(i)

\* The bounds of Spec: MaxRequests client requests, MaxSources of them the
\* submission of a source.
CanRequest == requests < MaxRequests
CanSubmit == CanRequest /\ nextSourceId + Len(posts) <= MaxSources

Next ==
    \/ (CanRequest /\ CreateNotebook)
    \/ (CanSubmit /\ PostUpload)
    \/ (CanSubmit /\ PostText)
    \/ (CanSubmit /\ PostUrl)
    \/ (\E i \in DOMAIN posts : CreateSource_insert(i))
    \/ (\E i \in DOMAIN posts : CreateSource_insertRejected(i))
    \/ (\E i \in DOMAIN posts : CreateSource_insertOrphan(i))
    \/ (CanRequest /\ UpdateSource_check)
    \/ (\E i \in DOMAIN puts : UpdateSource_update(i))
    \/ processDocument
    \/ (CanRequest /\ DeleteNotebook_check)
    \/ (\E i \in DOMAIN deletes : DeleteNotebook_vectors(i))
    \/ (\E i \in DOMAIN deletes : DeleteNotebook_row(i))
    \/ (CanRequest /\ DeleteSource_check)
    \/ (\E i \in DOMAIN deletes : DeleteSource_vectors(i))
    \/ (\E i \in DOMAIN deletes : DeleteSource_row(i))

Spec == Init /\ [][Next]_vars


(***************************************************************************)
(* The isolation specification: a database with two notebooks, text        *)
(* sources posted to either of them, their ingestion, and deletions.       *)
(***************************************************************************)
IsoMaxRequests == 3
IsoMaxSources == 2

\* The bodies posted in SpecIsolation: one short text, the same in every
\* notebook.
IsoPostedTexts == {<<"a">>}

InitIsolation ==
    \E fks \in BOOLEAN, nullable \in BOOLEAN, configs \in InitialConfigs :
        Database({1, 2}, fks, nullable, configs)

IsoCanRequest == requests < IsoMaxRequests

NextIsolation ==
    \/ (IsoCanRequest /\ nextSourceId + Len(posts) <= IsoMaxSources
           /\ PostTextOf(IsoPostedTexts))
    \/ (\E i \in DOMAIN posts : CreateSource_insert(i))
    \/ (\E i \in DOMAIN posts : CreateSource_insertRejected(i))
    \/ (\E i \in DOMAIN posts : CreateSource_insertOrphan(i))
    \/ processDocument
    \/ (IsoCanRequest /\ DeleteNotebook_check)
    \/ (\E i \in DOMAIN deletes : DeleteNotebook_vectors(i))
    \/ (\E i \in DOMAIN deletes : DeleteNotebook_row(i))
    \/ (IsoCanRequest /\ DeleteSource_check)
    \/ (\E i \in DOMAIN deletes : DeleteSource_vectors(i))
    \/ (\E i \in DOMAIN deletes : DeleteSource_row(i))

SpecIsolation == InitIsolation /\ [][NextIsolation]_vars


(***************************************************************************)
(* Citation assembly (routes/chat.js, processResponseWithCitations).       *)
(***************************************************************************)
\* The positions at which text holds the two characters "\n\n".
DoubleNewlineAt(text, p) ==
    p + 1 <= Len(text) /\ text[p] = NL /\ text[p + 1] = NL

\* text.split('\n\n') from position from on: the separators are matched
\* from left to right and do not overlap.
RECURSIVE SplitOnBlankLine(_, _)
SplitOnBlankLine(text, from) ==
    LET hits == {p \in from..Len(text) : DoubleNewlineAt(text, p)}
    IN  IF hits = {} THEN <<SubSeq(text, from, Len(text))>>
        ELSE LET p == CHOOSE h \in hits : \A g \in hits : h <= g
             IN  <<SubSeq(text, from, p - 1)>> \o SplitOnBlankLine(text, p + 2)

\* p.trim() is the empty string, which filter() drops.
IsBlank(p) == \A k \in DOMAIN p : IsWhitespace(p[k])

\* text.split('\n\n').filter(p => p.trim())
AnswerParagraphs(text) ==
    SelectSeq(SplitOnBlankLine(text, 1), LAMBDA p : ~IsBlank(p))

\* paragraph.split('\n').length
LineCount(paragraph) ==
    Cardinality({k \in DOMAIN paragraph : paragraph[k] = NL}) + 1

ExcerptLength == 200
Ellipsis == <<".", ".", ".">>

\* value || fallback for a string: the empty string is falsy.
OrElse(value, fallback) == IF value = "" THEN fallback ELSE value

\* A citation that names the chunk in the first position for every segment.
CitedDoc_first(relevantDocs, index) == relevantDocs[1]

\* relevantDocs[index % relevantDocs.length], for a non-empty relevantDocs.
CitedDoc(relevantDocs, index) ==
    relevantDocs[(index % Len(relevantDocs)) + 1]

\* The object pushed to citations for the paragraph at position index
\* (0-based).
Citation(paragraph, index, doc) ==
    [citation_id |-> index + 1,
     source_id |-> doc.metadata.source_id,
     source_title |-> OrElse(doc.metadata.source_title, "Fuente desconocida"),
     source_type |-> OrElse(doc.metadata.source_type, "text"),
     chunk_index |-> doc.id,
     chunk_lines_from |-> 1,
     chunk_lines_to |-> LineCount(paragraph),
     excerpt |-> substring(doc.content, 0, ExcerptLength) \o Ellipsis]

\* An assembly that numbers every segment before it looks for the chunk.
processResponseWithCitations_numbered(text, relevantDocs) ==
    LET paragraphs == AnswerParagraphs(text)
    IN  [segments |->
           [k \in DOMAIN paragraphs |->
              [text |-> paragraphs[k], citation_id |-> k]],
         citations |->
           IF relevantDocs = <<>> THEN <<>>
           ELSE [k \in DOMAIN paragraphs |->
                   Citation(paragraphs[k], k - 1,
                            CitedDoc(relevantDocs, k - 1))]]

\* With no retrieved chunk, index % 0 is NaN and relevantDocs[NaN] is
\* undefined: the segment is pushed without a citation_id, and no citation.
processResponseWithCitations(text, relevantDocs) ==
    LET paragraphs == AnswerParagraphs(text)
    IN  IF relevantDocs = <<>>
        THEN [segments |-> [k \in DOMAIN paragraphs |-> [text |-> paragraphs[k]]],
              citations |-> <<>>]
        ELSE [segments |->
                [k \in DOMAIN paragraphs |->
                   [text |-> paragraphs[k], citation_id |-> k]],
              citations |->
                [k \in DOMAIN paragraphs |->
                   Citation(paragraphs[k], k - 1,
                            CitedDoc(relevantDocs, k - 1))]]

(***************************************************************************)
(* Provider selection (llmService, getActiveLLMConfig).                    *)
(***************************************************************************)
\* WHERE is_active = true: the ids of the rows selected.
EligibleConfigs(table) ==
    {id \in DOMAIN table : IsTrue(table[id].is_active)}

\* The place of a value in ORDER BY ... DESC: PostgreSQL sorts NULL as
\* larger than every value, so NULL comes first, then true, then false.
DescRank(value) ==
    IF value = SqlNull THEN 2 ELSE IF value = "true" THEN 1 ELSE 0

\* ORDER BY is_default DESC LIMIT 1: the rows that can come first, which
\* are those of ids whose is_default sorts highest (rows that compare
\* equal come in any order).
FirstByDefault(table, ids) ==
    {id \in ids : \A other \in ids :
                    DescRank(table[other].is_default)
                        <= DescRank(table[id].is_default)}

NoConfig == [ok |-> FALSE, id |-> 0,
             config |-> [provider |-> "", model |-> "",
                         is_active |-> "false", is_default |-> "false"]]

\* What getActiveLLMConfig can return on the table: a row, or the error
\* 'No hay configuración LLM activa' when the query returns no row.
getActiveLLMConfig(table) ==
    LET first == FirstByDefault(table, EligibleConfigs(table))
    IN  IF first = {} THEN {NoConfig}
        ELSE {[ok |-> TRUE, id |-> id, config |-> table[id]] : id \in first}


(***************************************************************************)
(* POST /api/chat/send/:notebookId and DELETE /api/chat/history/:notebookId *)
(* (routes/chat.js), one action per await.                                  *)
(***************************************************************************)
\* The bodies of POST /send: `!message` rejects the empty message.
Messages == {"q"}

\* What generateChatResponse can return with the configuration it read:
\* the text of the answer, the provider of the adapter (the one the switch
\* on config.provider chose) and config.model.
AnswerTexts == {<<"x">>, <<"x", NL, NL, "y">>}
ChatAnswers(config) ==
    {[text |-> t, provider |-> config.provider, model |-> config.model] :
       t \in AnswerTexts}
NoAnswer == [text |-> <<>>, provider |-> "", model |-> ""]

\* LIMIT 10 of the history query.
HistoryLimit == 10

\* A POST /send request whose notebook check has passed.  userMessage and
\* aiMessage are the ids of the rows its two INSERTs returned (0: none);
\* cleared records that the user's row was deleted after it was written.
NewTurn(notebookId, message) ==
    [notebookId |-> notebookId, message |-> message, pc |-> "sources",
     status |-> 0, userMessage |-> 0, relevantDocs |-> <<>>,
     chatHistory |-> <<>>, llmMessages |-> <<>>,
     llmConfig |-> NoConfig.config, aiResponse |-> NoAnswer,
     aiMessage |-> 0, failedAt |-> "none", cleared |-> FALSE]

\* JSON.stringify(value): a string that holds the serialised value.
JSONstringify(value) == <<"json", value>>

HumanMessage(message) == [type |-> "human", content |-> message]

AIMessage(processed, aiResponse) ==
    [type |-> "ai", content |-> JSONstringify(processed),
     provider |-> aiResponse.provider, model |-> aiResponse.model]

ChatRow(id, notebookId, message) ==
    [id |-> id, session_id |-> notebookId, message |-> message]

\* A precondition check that counts the sources of any status.
CompletedSources_anyStatus(table, notebookId) ==
    {s \in DOMAIN table : table[s].notebook_id = notebookId}

\* SELECT COUNT(*) FROM sources WHERE notebook_id = $1 AND
\* processing_status = 'completed': the rows counted.
CompletedSources(table, notebookId) ==
    {s \in DOMAIN table : /\ table[s].notebook_id = notebookId
                          /\ table[s].processing_status = "completed"}

SetTurn(i, turn) ==
    turns' = [turns EXCEPT ![i] = turn]

\* The request has a message and its notebook exists (an empty message
\* answers 400, a missing notebook 404, and neither changes anything).
ChatSend_notebook ==
    /\ requests' = requests + 1
    /\ \E notebookId \in notebooks, message \in Messages :
         turns' = Append(turns, NewTurn(notebookId, message))
    /\ UNCHANGED <<notebooks, nextNotebookId, posts, puts,
                   foreignKeys,
                   nullableFlags, sources, nextSourceId, documents,
                   nextDocumentId, tasks, deletes, chat_histories, nextChatId, clears,
                   adminVars, call,
                   audioVars>>

\* The count of completed sources; zero answers 400.
ChatSend_sources(i) ==
    /\ turns[i].pc = "sources"
    /\ IF Cardinality(CompletedSources(sources, turns[i].notebookId)) = 0
       THEN SetTurn(i, [turns[i] EXCEPT !.status = 400, !.pc = "done"])
       ELSE SetTurn(i, [turns[i] EXCEPT !.pc = "saveUser"])
    /\ UNCHANGED <<ingestVars, chat_histories, nextChatId, clears, adminVars, call,
                   audioVars>>

\* A turn that goes on to retrieval without saving the user's message.
ChatSend_saveUser_skipped(i) ==
    /\ turns[i].pc = "saveUser"
    /\ SetTurn(i, [turns[i] EXCEPT !.pc = "search"])
    /\ UNCHANGED <<ingestVars, chat_histories, nextChatId, clears, adminVars, call,
                   audioVars>>

\* The turn after an await threw: the catch block answers 500.
FailedTurn(turn, step) ==
    [turn EXCEPT !.status = 500, !.failedAt = step, !.pc = "done"]

\* An INSERT INTO chat_histories for the notebook violates the reference of
\* session_id: the notebook was deleted after the check.
ChatInsertRejected(notebookId) == foreignKeys /\ notebookId \notin notebooks

\* INSERT INTO chat_histories of the user's message.
ChatSend_saveUser(i) ==
    /\ turns[i].pc = "saveUser"
    /\ IF ChatInsertRejected(turns[i].notebookId)
       THEN /\ SetTurn(i, FailedTurn(turns[i], "saveUser"))
            /\ UNCHANGED <<chat_histories, nextChatId>>
       ELSE /\ chat_histories' =
                 Append(chat_histories,
                        ChatRow(nextChatId, turns[i].notebookId,
                                HumanMessage(turns[i].message)))
            /\ nextChatId' = nextChatId + 1
            /\ SetTurn(i, [turns[i] EXCEPT !.userMessage = nextChatId,
                                           !.pc = "search"])
    /\ UNCHANGED <<ingestVars, clears, adminVars, call,
                   audioVars>>

\* relevantDocs = await searchDocuments(message, notebookId): the embedding
\* of the message or the query throws, or the nearest rows come back.
ChatSend_search(i) ==
    /\ turns[i].pc = "search"
    /\ \/ SetTurn(i, FailedTurn(turns[i], "search"))
       \/ \E q \in Embeddings :
            \E rows \in searchDocuments(documents, q, turns[i].notebookId,
                                        DefaultSearchLimit) :
              SetTurn(i, [turns[i] EXCEPT !.relevantDocs = rows,
                                          !.pc = "history"])
    /\ UNCHANGED <<ingestVars, chat_histories, nextChatId, clears, adminVars, call,
                   audioVars>>

\* The last n elements of a sequence.
LastN(seq, n) == SubSeq(seq, Len(seq) - Min(n, Len(seq)) + 1, Len(seq))

\* The rows as the query returns them, newest first, without reverse().
RecentHistory_unreversed(rows, notebookId) ==
    LET own == SelectSeq(rows, LAMBDA r : r.session_id = notebookId)
        last == LastN(own, HistoryLimit)
    IN  [k \in DOMAIN last |-> last[Len(last) + 1 - k].message]

\* SELECT message ... WHERE session_id = $1 ORDER BY id DESC LIMIT 10, then
\* reverse(): the last ten messages of the notebook, oldest first.
RecentHistory(rows, notebookId) ==
    LET own == SelectSeq(rows, LAMBDA r : r.session_id = notebookId)
        last == LastN(own, HistoryLimit)
    IN  [k \in DOMAIN last |-> last[k].message]

ChatSend_history(i) ==
    /\ turns[i].pc = "history"
    /\ SetTurn(i, [turns[i] EXCEPT
                     !.chatHistory = RecentHistory(chat_histories,
                                                   turns[i].notebookId),
                     !.pc = "generate"])
    /\ UNCHANGED <<ingestVars, chat_histories, nextChatId, clears, adminVars, call,
                   audioVars>>

\* The system message: the instructions and the context, which is the
\* contents of the retrieved chunks joined by blank lines.
SystemMessage(relevantDocs) ==
    [role |-> "system",
     content |-> [k \in DOMAIN relevantDocs |-> relevantDocs[k].content]]

UserMessage(message) == [role |-> "user", content |-> message]

\* [systemMessage, ...chatHistory, { role: 'user', content: message }]
LLMMessages(relevantDocs, chatHistory, message) ==
    <<SystemMessage(relevantDocs)>> \o chatHistory \o <<UserMessage(message)>>

\* generateChatResponse([...]) is called and awaits getActiveLLMConfig():
\* the row it selects, or the error of a table without active row, which
\* the route answers with 500.
ChatSend_config(i) ==
    /\ turns[i].pc = "generate"
    /\ LET turn == [turns[i] EXCEPT
                      !.llmMessages = LLMMessages(turns[i].relevantDocs,
                                                  turns[i].chatHistory,
                                                  turns[i].message)]
       IN  \E selected \in getActiveLLMConfig(llm_configs) :
             IF selected.ok
             THEN SetTurn(i, [turn EXCEPT !.llmConfig = selected.config,
                                          !.pc = "provider"])
             ELSE SetTurn(i, FailedTurn(turn, "generate"))
    /\ UNCHANGED <<ingestVars, chat_histories, nextChatId, clears, adminVars, call,
                   audioVars>>

\* The adapter of the configuration's provider: the request to the provider
\* throws or an answer comes back, and generateChatResponse returns it.
ChatSend_generate(i) ==
    /\ turns[i].pc = "provider"
    /\ \/ SetTurn(i, FailedTurn(turns[i], "generate"))
       \/ \E answer \in ChatAnswers(turns[i].llmConfig) :
            SetTurn(i, [turns[i] EXCEPT !.aiResponse = answer,
                                        !.pc = "saveAI"])
    /\ UNCHANGED <<ingestVars, chat_histories, nextChatId, clears, adminVars, call,
                   audioVars>>

\* processResponseWithCitations and the INSERT of the assistant's message;
\* the request answers 200.
ChatSend_saveAI(i) ==
    /\ turns[i].pc = "saveAI"
    /\ IF ChatInsertRejected(turns[i].notebookId)
       THEN /\ SetTurn(i, FailedTurn(turns[i], "saveAI"))
            /\ UNCHANGED <<chat_histories, nextChatId>>
       ELSE /\ LET processed ==
                     processResponseWithCitations(turns[i].aiResponse.text,
                                                  turns[i].relevantDocs)
               IN  chat_histories' =
                     Append(chat_histories,
                            ChatRow(nextChatId, turns[i].notebookId,
                                    AIMessage(processed, turns[i].aiResponse)))
            /\ nextChatId' = nextChatId + 1
            /\ SetTurn(i, [turns[i] EXCEPT !.aiMessage = nextChatId,
                                           !.status = 200, !.pc = "done"])
    /\ UNCHANGED <<ingestVars, clears, adminVars, call,
                   audioVars>>

\* DELETE /history/:notebookId, the notebook check (a missing notebook
\* answers 404 and changes nothing).
DeleteHistory_check ==
    /\ requests' = requests + 1
    /\ \E notebookId \in notebooks :
         clears' = Append(clears, [notebookId |-> notebookId])
    /\ UNCHANGED <<notebooks, nextNotebookId, sources, nextSourceId,
                   documents, nextDocumentId, tasks, deletes, posts, puts,
                   foreignKeys,
                   nullableFlags, chat_histories, nextChatId, turns, adminVars,
                   call, audioVars>>

\* DELETE FROM chat_histories WHERE session_id = $1; the request answers
\* 200.  The turns whose user message goes are marked cleared.
DeleteHistory_delete(i) ==
    /\ LET notebookId == clears[i].notebookId
       IN  /\ chat_histories' = SelectSeq(chat_histories,
                                    LAMBDA r : r.session_id # notebookId)
           /\ turns' = [k \in DOMAIN turns |->
                          IF /\ turns[k].notebookId = notebookId
                             /\ turns[k].userMessage # 0
                          THEN [turns[k] EXCEPT !.cleared = TRUE]
                          ELSE turns[k]]
    /\ clears' = RemoveAt(clears, i)
    /\ UNCHANGED <<ingestVars, nextChatId, adminVars, call, audioVars>>

ChatSend ==
    \E i \in DOMAIN turns :
        \/ ChatSend_sources(i)
        \/ ChatSend_saveUser(i)
        \/ ChatSend_search(i)
        \/ ChatSend_history(i)
        \/ ChatSend_config(i)
        \/ ChatSend_generate(i)
        \/ ChatSend_saveAI(i)

(***************************************************************************)
(* The chat specification: one notebook, a text source posted to it and    *)
(* ingested, chat turns, the clearing of the history and the deletion of   *)
(* the notebook.                                                           *)
(***************************************************************************)
ChatMaxRequests == 3
ChatMaxSources == 1

InitChat ==
    \E fks \in BOOLEAN, nullable \in BOOLEAN, configs \in InitialConfigs :
        Database({1}, fks, nullable, configs)

ChatCanRequest == requests < ChatMaxRequests

NextChat ==
    \/ (ChatCanRequest /\ nextSourceId + Len(posts) <= ChatMaxSources
           /\ PostTextOf(IsoPostedTexts))
    \/ (\E i \in DOMAIN posts : CreateSource_insert(i))
    \/ (\E i \in DOMAIN posts : CreateSource_insertRejected(i))
    \/ (\E i \in DOMAIN posts : CreateSource_insertOrphan(i))
    \/ processDocument
    \/ (ChatCanRequest /\ ChatSend_notebook)
    \/ ChatSend
    \/ (ChatCanRequest /\ DeleteHistory_check)
    \/ (\E i \in DOMAIN clears : DeleteHistory_delete(i))
    \/ (ChatCanRequest /\ DeleteNotebook_check)
    \/ (\E i \in DOMAIN deletes : DeleteNotebook_vectors(i))
    \/ (\E i \in DOMAIN deletes : DeleteNotebook_row(i))

SpecChat == InitChat /\ [][NextChat]_vars


(***************************************************************************)
(* The citation specification: processResponseWithCitations applied to     *)
(* answers built from paragraphs and to lists of retrieved chunks.         *)
(***************************************************************************)
CiteMaxParagraphs == 5
CiteMaxDocs == 3

\* The paragraphs an answer is built from: two with text (one of two
\* lines) and two blank ones.
CiteParagraphs == {<<"x">>, <<"y", NL, "z">>, <<>>, <<" ", "\r">>}

\* The sequences over S of length at most n.
SeqsUpTo(S, n) == UNION {[1..k -> S] : k \in 0..n}

\* paragraphs.join('\n\n')
RECURSIVE JoinParagraphs(_)
JoinParagraphs(ps) ==
    IF ps = <<>> THEN <<>>
    ELSE IF Len(ps) = 1 THEN ps[1]
    ELSE ps[1] \o <<NL, NL>> \o JoinParagraphs(Tail(ps))

\* The k-th chunk of the store: chunks 1 and 2 are cut from one source, and
\* chunk 1 is longer than an excerpt.
CiteDoc(k) ==
    [id |-> 10 + k,
     content |-> IF k = 1 THEN LongText ELSE <<"a">>,
     metadata |-> [notebook_id |-> 1, source_id |-> (k + 1) \div 2,
                   source_title |-> IF k <= 2 THEN "A" ELSE "B",
                   source_type |-> IF k <= 2 THEN "text" ELSE "pdf",
                   chunk_index |-> (k + 1) % 2],
     embedding |-> <<1, 1>>]

\* The lists searchDocuments can return: rows of the store, each once.
CiteDocSeqs ==
    {ds \in SeqsUpTo({CiteDoc(k) : k \in 1..CiteMaxDocs}, CiteMaxDocs) :
       \A i, j \in DOMAIN ds : ds[i] = ds[j] => i = j}

CallCitations ==
    /\ call = NoCall
    /\ \E ps \in SeqsUpTo(CiteParagraphs, CiteMaxParagraphs),
          docs \in CiteDocSeqs :
         call' = [op |-> "processResponseWithCitations",
                  paragraphs |-> ps,
                  text |-> JoinParagraphs(ps),
                  relevantDocs |-> docs,
                  result |-> processResponseWithCitations(JoinParagraphs(ps),
                                                          docs)]
    /\ UNCHANGED <<ingestVars, chatVars, adminVars, audioVars>>

NextCitations == CallCitations

SpecCitations == InitEmpty /\ [][NextCitations]_vars


(***************************************************************************)
(* /api/admin/llm-configs (routes/admin.js), one action per await.         *)
(***************************************************************************)
Providers == {"openai", "anthropic"}

\* The model each provider is configured with in the bodies.
ModelOf(provider) == IF provider = "openai" THEN "m" ELSE "c3"

\* What a body can carry as is_active and as is_default: the routes
\* validate nothing, and a field that is left out is passed on as NULL.
BodyFlags == SqlBooleans \cup {SqlNull}

\* The bodies of POST and PUT /llm-configs.
ConfigBodies ==
    {[provider |-> provider, model |-> ModelOf(provider),
      is_active |-> active, is_default |-> default] :
        provider \in Providers, active \in BodyFlags, default \in BodyFlags}

\* A NOT NULL column refuses the row: the statement throws.
RefusedBySchema(body) ==
    /\ ~nullableFlags
    /\ SqlNull \in {body.is_active, body.is_default}

\* An admin request that has been received; create and update begin with
\* the clearing of the other defaults when their body has is_default.
NewAdminReq(kind, id, body) ==
    [kind |-> kind, id |-> id, body |-> body,
     pc |-> IF IsTrue(body.is_default) THEN "clear" ELSE "write"]

\* UPDATE llm_configs SET is_default = false [WHERE id != $1]: keep is the
\* set of ids the statement leaves alone.
ClearDefaults(table, keep) ==
    [id \in DOMAIN table |->
       IF id \in keep THEN table[id]
       ELSE [table[id] EXCEPT !.is_default = "false"]]

\* POST /llm-configs is received.
CreateConfig_start ==
    /\ requests' = requests + 1
    /\ \E body \in ConfigBodies :
         adminReqs' = Append(adminReqs, NewAdminReq("create", 0, body))
    /\ UNCHANGED <<notebooks, nextNotebookId, posts, puts,
                   foreignKeys,
                   nullableFlags, sources, nextSourceId, documents,
                   nextDocumentId, tasks, deletes, chatVars, llm_configs,
                   nextConfigId, call,
                   audioVars>>

\* if (is_default) UPDATE llm_configs SET is_default = false
CreateConfig_clear(i) ==
    /\ adminReqs[i].kind = "create" /\ adminReqs[i].pc = "clear"
    /\ llm_configs' = ClearDefaults(llm_configs, {})
    /\ adminReqs' = [adminReqs EXCEPT ![i].pc = "write"]
    /\ UNCHANGED <<ingestVars, chatVars, nextConfigId, call,
                   audioVars>>

\* INSERT INTO llm_configs (...) RETURNING ...; the request answers 201.
\* Where the schema refuses the row the INSERT throws and the request
\* answers 500: no row is written, and defaults that were cleared stay
\* cleared.
CreateConfig_insert(i) ==
    /\ adminReqs[i].kind = "create" /\ adminReqs[i].pc = "write"
    /\ IF RefusedBySchema(adminReqs[i].body)
       THEN UNCHANGED <<llm_configs, nextConfigId>>
       ELSE /\ llm_configs' = InsertRow(llm_configs, nextConfigId,
                                       adminReqs[i].body)
            /\ nextConfigId' = nextConfigId + 1
    /\ adminReqs' = RemoveAt(adminReqs, i)
    /\ UNCHANGED <<ingestVars, chatVars, call,
                   audioVars>>

\* PUT /llm-configs/:id is received.  The route takes any id: that of a
\* row that exists or has existed, one that no row has yet (nextConfigId)
\* and one that no row ever has (0).
UpdateConfig_start ==
    /\ requests' = requests + 1
    /\ \E id \in 0..nextConfigId, body \in ConfigBodies :
         adminReqs' = Append(adminReqs, NewAdminReq("update", id, body))
    /\ UNCHANGED <<notebooks, nextNotebookId, posts, puts,
                   foreignKeys,
                   nullableFlags, sources, nextSourceId, documents,
                   nextDocumentId, tasks, deletes, chatVars, llm_configs,
                   nextConfigId, call,
                   audioVars>>

\* if (is_default) UPDATE llm_configs SET is_default = false WHERE id != $1
UpdateConfig_clear(i) ==
    /\ adminReqs[i].kind = "update" /\ adminReqs[i].pc = "clear"
    /\ llm_configs' = ClearDefaults(llm_configs, {adminReqs[i].id})
    /\ adminReqs' = [adminReqs EXCEPT ![i].pc = "write"]
    /\ UNCHANGED <<ingestVars, chatVars, nextConfigId, call,
                   audioVars>>

\* UPDATE llm_configs SET ... WHERE id = $9; no row answers 404.  Where
\* the schema refuses the new values of a row the UPDATE throws (500) and
\* the row stays as it is.
UpdateConfig_update(i) ==
    /\ adminReqs[i].kind = "update" /\ adminReqs[i].pc = "write"
    /\ llm_configs' =
         IF RefusedBySchema(adminReqs[i].body)
         THEN llm_configs
         ELSE UpdateRow(llm_configs, adminReqs[i].id, adminReqs[i].body)
    /\ adminReqs' = RemoveAt(adminReqs, i)
    /\ UNCHANGED <<ingestVars, chatVars, nextConfigId, call,
                   audioVars>>

\* DELETE /llm-configs/:id: the SELECT found the row and it is not the
\* default (no row answers 404, the default row 400, and nothing changes).
DeleteConfig_check ==
    /\ requests' = requests + 1
    /\ \E id \in DOMAIN llm_configs :
         /\ ~IsTrue(llm_configs[id].is_default)
         /\ adminReqs' = Append(adminReqs,
                                [kind |-> "delete", id |-> id,
                                 body |-> llm_configs[id], pc |-> "delete"])
    /\ UNCHANGED <<notebooks, nextNotebookId, posts, puts,
                   foreignKeys,
                   nullableFlags, sources, nextSourceId, documents,
                   nextDocumentId, tasks, deletes, chatVars, llm_configs,
                   nextConfigId, call,
                   audioVars>>

\* DELETE FROM llm_configs WHERE id = $1
DeleteConfig_delete(i) ==
    /\ adminReqs[i].kind = "delete" /\ adminReqs[i].pc = "delete"
    /\ llm_configs' = DeleteRows(llm_configs, {adminReqs[i].id})
    /\ adminReqs' = RemoveAt(adminReqs, i)
    /\ UNCHANGED <<ingestVars, chatVars, nextConfigId, call,
                   audioVars>>

(***************************************************************************)
(* The admin specification: create, update and delete requests on an empty *)
(* llm_configs table.                                                      *)
(***************************************************************************)
AdminMaxRequests == 3

AdminCanRequest == requests < AdminMaxRequests

NextAdmin ==
    \/ (AdminCanRequest /\ CreateConfig_start)
    \/ (\E i \in DOMAIN adminReqs : CreateConfig_clear(i))
    \/ (\E i \in DOMAIN adminReqs : CreateConfig_insert(i))
    \/ (AdminCanRequest /\ UpdateConfig_start)
    \/ (\E i \in DOMAIN adminReqs : UpdateConfig_clear(i))
    \/ (\E i \in DOMAIN adminReqs : UpdateConfig_update(i))
    \/ (AdminCanRequest /\ DeleteConfig_check)
    \/ (\E i \in DOMAIN adminReqs : DeleteConfig_delete(i))

\* The empty table, in either schema.
InitAdmin == \E nullable \in BOOLEAN : Database({}, TRUE, nullable, <<>>)

SpecAdmin == InitAdmin /\ [][NextAdmin]_vars


(***************************************************************************)
(* The chunker specification: splitTextIntoChunks applied to short texts   *)
(* with small chunk sizes and overlaps.                                    *)
(***************************************************************************)
ChunkMaxLen == 6
ChunkMaxSize == 3
ChunkMaxOverlap == 3

ChunkAlphabet == {"a", "b", " ", "\r", NL}

CallSplit ==
    /\ call = NoCall
    /\ \E text \in SeqsUpTo(ChunkAlphabet, ChunkMaxLen),
          maxChunkSize \in 1..ChunkMaxSize,
          overlap \in 0..ChunkMaxOverlap :
         call' = [op |-> "splitTextIntoChunks",
                  text |-> text,
                  maxChunkSize |-> maxChunkSize,
                  overlap |-> overlap,
                  result |-> SplitOutcome(text, maxChunkSize, overlap)]
    /\ UNCHANGED <<ingestVars, chatVars, adminVars, audioVars>>

NextChunker == CallSplit

SpecChunker == InitEmpty /\ [][NextChunker]_vars


(***************************************************************************)
(* Sampling parameters of the provider requests (llmService,               *)
(* generateOpenAIResponse, generateAnthropicResponse,                      *)
(* generateGeminiResponse, generateOllamaResponse).  Objects are functions *)
(* from their keys; temperatures are counted in tenths.                    *)
(***************************************************************************)
DefaultTemperature == 7
DefaultMaxTokens == 1000

\* { ...base, ...extra }: the keys of extra replace those of base.
Spread(base, extra) ==
    [k \in DOMAIN base \cup DOMAIN extra |->
       IF k \in DOMAIN extra THEN extra[k] ELSE base[k]]

\* options[key] || default: a missing key and the value 0 give the default.
OptionOr(options, key, default) ==
    IF key \in DOMAIN options /\ options[key] # 0
    THEN options[key] ELSE default

\* The name under which each provider's request carries the token limit.
TokensKey(provider) ==
    CASE provider = "gemini" -> "maxOutputTokens"
      [] provider = "ollama" -> "num_predict"
      [] OTHER -> "max_tokens"

\* The sampling part of the request sent to the provider: the caller's
\* options or the defaults, then the stored config spread over them.
SamplingParams(provider, options, stored) ==
    Spread([k \in {"temperature", TokensKey(provider)} |->
              IF k = "temperature"
              THEN OptionOr(options, "temperature", DefaultTemperature)
              ELSE OptionOr(options, "max_tokens", DefaultMaxTokens)],
           stored)

ChatProviders == {"openai", "anthropic", "gemini", "ollama"}

\* The objects with at most the keys temperature and max_tokens, their
\* values from temperatures and tokens.
ParamObjects(temperatures, tokens) ==
    UNION {[keys -> temperatures \cup tokens] :
             keys \in SUBSET {"temperature", "max_tokens"}}

\* The caller's options and the stored config (llm_configs.config): 0 is
\* one of the values either can carry.
CallerOptions == {o \in ParamObjects({0, 2}, {0, 50}) :
                    /\ "temperature" \in DOMAIN o => o["temperature"] \in {0, 2}
                    /\ "max_tokens" \in DOMAIN o => o["max_tokens"] \in {0, 50}}
StoredConfigs == {o \in ParamObjects({0, 3}, {0, 60}) :
                    /\ "temperature" \in DOMAIN o => o["temperature"] \in {0, 3}
                    /\ "max_tokens" \in DOMAIN o => o["max_tokens"] \in {0, 60}}

CallGenerate ==
    /\ call = NoCall
    /\ \E provider \in ChatProviders, options \in CallerOptions,
          stored \in StoredConfigs :
         call' = [op |-> "generateChatResponse",
                  provider |-> provider,
                  options |-> options,
                  stored |-> stored,
                  request |-> SamplingParams(provider, options, stored)]
    /\ UNCHANGED <<ingestVars, chatVars, adminVars, audioVars>>

NextSampling == CallGenerate

SpecSampling == InitEmpty /\ [][NextSampling]_vars


(***************************************************************************)
(* Audio overview (routes/audio.js): POST /generate/:notebookId and its    *)
(* background task generateAudioOverview, GET /:notebookId, POST           *)
(* /refresh/:notebookId and DELETE /:notebookId.  Each await is one step.  *)
(***************************************************************************)
\* SQL NULL in audio_overview_generation_status.
NullStatus == "NULL"

\* The audio columns of a notebook no audio request has written.
NullAudio == [url |-> NULL, expires_at |-> NoTime, status |-> NullStatus]

\* The audio columns of notebook id.
AudioRow(table, id) == IF id \in DOMAIN table THEN table[id] ELSE NullAudio

\* UPDATE notebooks SET <audio columns> WHERE id = $n: no row, no change.
UpdateAudio(table, existing, id, row) ==
    IF id \in existing
    THEN [i \in DOMAIN table \cup {id} |-> IF i = id THEN row ELSE table[i]]
    ELSE table

\* The expiry window of an audio URL, in hours.
AudioTTL == 24

\* expiresAt = new Date(); expiresAt.setHours(expiresAt.getHours() + 24)
ExpiresAt(at) == at + AudioTTL

\* An expiry test that never finds a URL expired.
Expired_never(expires_at, at) == FALSE

\* notebook.audio_url_expires_at &&
\*     new Date(notebook.audio_url_expires_at) < new Date()
Expired(expires_at, at) == expires_at # NoTime /\ expires_at < at

\* `/audio/${audioFilename}`
AudioUrl(file) == <<"audio", file>>

NewAudioTask(kind, notebookId, pc) ==
    [kind |-> kind, notebookId |-> notebookId, pc |-> pc, url |-> NULL,
     expiresAt |-> NoTime]

SetAudioTask(i, task) ==
    audioTasks' = [audioTasks EXCEPT ![i] = task]

\* The clock advances.
TickHours == 12
LastHour == 37

Tick ==
    /\ now < LastHour
    /\ now' = now + TickHours
    /\ UNCHANGED <<ingestVars, chatVars, adminVars, call, audio, audioTasks,
                   audioGet, nextAudioFile, restarts,
                   genVars>>

\* POST /generate/:notebookId, the ownership check: 404 when the notebook
\* is missing.
AudioGenerate_check ==
    /\ requests' = requests + 1
    /\ \E notebookId \in notebooks :
         audioTasks' = Append(audioTasks,
                              NewAudioTask("generate", notebookId, "mark"))
    /\ UNCHANGED <<notebooks, nextNotebookId, posts, puts,
                   foreignKeys,
                   nullableFlags, sources, nextSourceId, documents,
                   nextDocumentId, tasks, deletes, chatVars, adminVars, call,
                   audio, now, audioGet, nextAudioFile, restarts,
                   genVars>>

\* UPDATE notebooks SET audio_overview_generation_status = 'generating',
\* then generateAudioOverview(notebookId) is started and not awaited.
AudioGenerate_mark(i) ==
    /\ audioTasks[i].kind = "generate"
    /\ audioTasks[i].pc = "mark"
    /\ LET id == audioTasks[i].notebookId
       IN  audio' = UpdateAudio(audio, notebooks, id,
                        [AudioRow(audio, id) EXCEPT !.status = "generating"])
    /\ SetAudioTask(i, [audioTasks[i] EXCEPT !.pc = "select"])
    /\ UNCHANGED <<ingestVars, chatVars, adminVars, call, now, audioGet,
                   nextAudioFile, restarts,
                   genVars>>

\* A task that goes on to the LLM call whatever the SELECT returns.
generateAudioOverview_select_unchecked(i) ==
    /\ audioTasks[i].kind = "generate"
    /\ audioTasks[i].pc = "select"
    /\ SetAudioTask(i, [audioTasks[i] EXCEPT !.pc = "generate"])
    /\ UNCHANGED <<ingestVars, chatVars, adminVars, call, audio, now,
                   audioGet, nextAudioFile, restarts,
                   genVars>>

\* generateAudioOverview: SELECT content, summary FROM sources WHERE
\* notebook_id = $1 AND processing_status = 'completed'.
generateAudioOverview_select(i) ==
    /\ audioTasks[i].kind = "generate"
    /\ audioTasks[i].pc = "select"
    /\ SetAudioTask(i, [audioTasks[i] EXCEPT !.pc =
           IF CompletedSources(sources, audioTasks[i].notebookId) = {}
           THEN "nosources" ELSE "generate"])
    /\ UNCHANGED <<ingestVars, chatVars, adminVars, call, audio, now,
                   audioGet, nextAudioFile, restarts,
                   genVars>>

\* No completed source: the status becomes failed and the task returns.
\* The catch block does the same UPDATE.
generateAudioOverview_failed(i) ==
    /\ audioTasks[i].kind = "generate"
    /\ audioTasks[i].pc \in {"nosources", "catch"}
    /\ LET id == audioTasks[i].notebookId
       IN  audio' = UpdateAudio(audio, notebooks, id,
                        [AudioRow(audio, id) EXCEPT !.status = "failed"])
    /\ audioTasks' = RemoveAt(audioTasks, i)
    /\ UNCHANGED <<ingestVars, chatVars, adminVars, call, now, audioGet,
                   nextAudioFile, restarts,
                   genVars>>

\* generateChatResponse([systemPrompt, userPrompt]): an answer, or an error
\* that the catch block handles.
generateAudioOverview_generate(i) ==
    /\ audioTasks[i].kind = "generate"
    /\ audioTasks[i].pc = "generate"
    /\ \E pc \in {"write", "catch"} :
         SetAudioTask(i, [audioTasks[i] EXCEPT !.pc = pc])
    /\ UNCHANGED <<ingestVars, chatVars, adminVars, call, audio, now,
                   audioGet, nextAudioFile, restarts,
                   genVars>>

\* fs.writeFile(audioPath, '') of a fresh file; when it returns the expiry
\* is computed from the clock.
generateAudioOverview_write(i) ==
    /\ audioTasks[i].kind = "generate"
    /\ audioTasks[i].pc = "write"
    /\ \/ /\ SetAudioTask(i, [audioTasks[i] EXCEPT
                                 !.pc = "update",
                                 !.url = AudioUrl(nextAudioFile),
                                 !.expiresAt = ExpiresAt(now)])
          /\ nextAudioFile' = nextAudioFile + 1
       \/ /\ SetAudioTask(i, [audioTasks[i] EXCEPT !.pc = "catch"])
          /\ UNCHANGED nextAudioFile
    /\ UNCHANGED <<ingestVars, chatVars, adminVars, call, audio, now,
                   audioGet, restarts,
                   genVars>>

\* UPDATE notebooks SET audio_overview_url, audio_url_expires_at,
\* audio_overview_generation_status = 'completed'.
generateAudioOverview_update(i) ==
    /\ audioTasks[i].kind = "generate"
    /\ audioTasks[i].pc = "update"
    /\ audio' = UpdateAudio(audio, notebooks, audioTasks[i].notebookId,
                    [url |-> audioTasks[i].url,
                     expires_at |-> audioTasks[i].expiresAt,
                     status |-> "completed"])
    /\ audioTasks' = RemoveAt(audioTasks, i)
    /\ UNCHANGED <<ingestVars, chatVars, adminVars, call, now, audioGet,
                   nextAudioFile, restarts,
                   genVars>>

generateAudioOverview ==
    \E i \in DOMAIN audioTasks :
        \/ generateAudioOverview_select(i)
        \/ generateAudioOverview_failed(i)
        \/ generateAudioOverview_generate(i)
        \/ generateAudioOverview_write(i)
        \/ generateAudioOverview_update(i)

\* The answer of GET /:notebookId to a row read at a time.
AudioDescriptor(row, at) ==
    IF Expired(row.expires_at, at)
    THEN [code |-> 410,
          body |-> [error |-> "URL de audio expirada", status |-> row.status]]
    ELSE [code |-> 200,
          body |-> [url |-> row.url, status |-> row.status,
                    expiresAt |-> row.expires_at]]

\* GET /:notebookId: one SELECT, then the answer (404 when the notebook is
\* missing).
AudioGet ==
    /\ \E notebookId \in notebooks :
         audioGet' = [op |-> "get", notebookId |-> notebookId, at |-> now,
                      row |-> AudioRow(audio, notebookId),
                      response |-> AudioDescriptor(AudioRow(audio, notebookId),
                                                   now)]
    /\ UNCHANGED <<ingestVars, chatVars, adminVars, call, audio, now,
                   audioTasks, nextAudioFile, restarts,
                   genVars>>

\* POST /refresh/:notebookId, the SELECT: 404 when the notebook is missing
\* or has no audio URL; otherwise the new expiry is computed.
AudioRefresh_check ==
    /\ requests' = requests + 1
    /\ \E notebookId \in notebooks :
         /\ AudioRow(audio, notebookId).url # NULL
         /\ audioTasks' = Append(audioTasks,
                [NewAudioTask("refresh", notebookId, "update") EXCEPT
                    !.url = AudioRow(audio, notebookId).url,
                    !.expiresAt = ExpiresAt(now)])
    /\ UNCHANGED <<notebooks, nextNotebookId, posts, puts,
                   foreignKeys,
                   nullableFlags, sources, nextSourceId, documents,
                   nextDocumentId, tasks, deletes, chatVars, adminVars, call,
                   audio, now, audioGet, nextAudioFile, restarts,
                   genVars>>

\* UPDATE notebooks SET audio_url_expires_at = $1 WHERE id = $2
AudioRefresh_update(i) ==
    /\ audioTasks[i].kind = "refresh"
    /\ LET id == audioTasks[i].notebookId
       IN  audio' = UpdateAudio(audio, notebooks, id,
                        [AudioRow(audio, id) EXCEPT
                            !.expires_at = audioTasks[i].expiresAt])
    /\ audioTasks' = RemoveAt(audioTasks, i)
    /\ UNCHANGED <<ingestVars, chatVars, adminVars, call, now, audioGet,
                   nextAudioFile, restarts,
                   genVars>>

\* DELETE /:notebookId, the SELECT: 404 when the notebook is missing.
AudioDelete_check ==
    /\ requests' = requests + 1
    /\ \E notebookId \in notebooks :
         audioTasks' = Append(audioTasks,
                              NewAudioTask("delete", notebookId, "update"))
    /\ UNCHANGED <<notebooks, nextNotebookId, posts, puts,
                   foreignKeys,
                   nullableFlags, sources, nextSourceId, documents,
                   nextDocumentId, tasks, deletes, chatVars, adminVars, call,
                   audio, now, audioGet, nextAudioFile, restarts,
                   genVars>>

\* A delete whose UPDATE clears the URL and its expiry and leaves the
\* status as it is.
AudioDelete_update_keepsStatus(i) ==
    /\ audioTasks[i].kind = "delete"
    /\ LET id == audioTasks[i].notebookId
       IN  audio' = UpdateAudio(audio, notebooks, id,
                        [AudioRow(audio, id) EXCEPT !.url = NULL,
                                                    !.expires_at = NoTime])
    /\ audioTasks' = RemoveAt(audioTasks, i)
    /\ UNCHANGED <<ingestVars, chatVars, adminVars, call, now, audioGet,
                   nextAudioFile, restarts,
                   genVars>>

\* The file is unlinked, then UPDATE notebooks SET audio_overview_url =
\* NULL, audio_url_expires_at = NULL, audio_overview_generation_status =
\* NULL.
AudioDelete_update(i) ==
    /\ audioTasks[i].kind = "delete"
    /\ audio' = UpdateAudio(audio, notebooks, audioTasks[i].notebookId,
                            NullAudio)
    /\ audioTasks' = RemoveAt(audioTasks, i)
    /\ UNCHANGED <<ingestVars, chatVars, adminVars, call, now, audioGet,
                   nextAudioFile, restarts,
                   genVars>>

AudioMaxRequests == 3
AudioMaxSources == 1

AudioCanRequest == requests < AudioMaxRequests

NextAudio ==
    \/ (AudioCanRequest /\ nextSourceId + Len(posts) <= AudioMaxSources
           /\ PostTextOf(IsoPostedTexts))
    \/ (\E i \in DOMAIN posts : CreateSource_insert(i))
    \/ processDocument
    \/ (AudioCanRequest /\ AudioGenerate_check)
    \/ (\E i \in DOMAIN audioTasks : AudioGenerate_mark(i))
    \/ generateAudioOverview
    \/ AudioGet
    \/ (AudioCanRequest /\ AudioRefresh_check)
    \/ (\E i \in DOMAIN audioTasks : AudioRefresh_update(i))
    \/ (AudioCanRequest /\ AudioDelete_check)
    \/ (\E i \in DOMAIN audioTasks : AudioDelete_update(i))
    \/ Tick

SpecAudio == InitChat /\ [][NextAudio]_vars


(***************************************************************************)
(* Crash and restart of the server process (index.js, startServer).  The   *)
(* calls in flight live in the process and are lost with it; the database   *)
(* keeps its rows.  startServer runs initializeDatabase and listens: it     *)
(* reads and writes no status.                                              *)
(***************************************************************************)
MaxRestarts == 1

\* A background job is running: an ingestion, an audio generation or a
\* content generation.
JobInFlight ==
    \/ \E i \in DOMAIN tasks : tasks[i].pc # "done"
    \/ \E i \in DOMAIN audioTasks : audioTasks[i].kind = "generate"
    \/ genTasks # <<>>

Crash ==
    /\ restarts < MaxRestarts
    /\ JobInFlight
    /\ restarts' = restarts + 1
    /\ tasks' = <<>>
    /\ deletes' = <<>>
    /\ turns' = <<>>
    /\ adminReqs' = <<>>
    /\ audioTasks' = <<>>
    /\ genTasks' = <<>>
    /\ posts' = <<>>
    /\ puts' = <<>>
    /\ clears' = <<>>
    /\ UNCHANGED <<requests, notebooks, nextNotebookId, sources, nextSourceId,
                   documents, nextDocumentId, foreignKeys,
                   nullableFlags, chat_histories,
                   nextChatId, llm_configs, nextConfigId, call, audio, now, audioGet,
                   nextAudioFile, generation>>

CrashMaxRequests == 3
CrashMaxSources == 2

CrashCanRequest == requests < CrashMaxRequests

NextCrash ==
    \/ (CrashCanRequest /\ nextSourceId + Len(posts) <= CrashMaxSources
           /\ PostTextOf(IsoPostedTexts))
    \/ (\E i \in DOMAIN posts : CreateSource_insert(i))
    \/ processDocument
    \/ (CrashCanRequest /\ AudioGenerate_check)
    \/ (\E i \in DOMAIN audioTasks : AudioGenerate_mark(i))
    \/ generateAudioOverview
    \/ Crash

SpecCrash == InitChat /\ [][NextCrash]_vars


(***************************************************************************)
(* generateEmbeddings (services/llmService.js): the configuration that     *)
(* embeds a text.                                                          *)
(***************************************************************************)
\* SELECT * FROM llm_configs WHERE provider = 'openai' AND is_active = true
\* LIMIT 1: the rows that can be returned (there is no ORDER BY).
ActiveOpenAIConfigs(table) ==
    {id \in DOMAIN table :
        table[id].provider = "openai" /\ IsTrue(table[id].is_active)}

\* The providers generateEmbeddings embeds with directly.
EmbeddingProviders == {"openai", "ollama"}

\* What generateEmbeddings can do: embed with a configuration (used, reached
\* directly or by the fallback) or throw.  table is llm_configs as
\* getActiveLLMConfig reads it and later the table as the fallback SELECT
\* reads it, after the await in between.
generateEmbeddings(table, later) ==
    UNION {IF ~selected.ok
           THEN {[ok |-> FALSE, selected |-> 0, used |-> 0,
                  error |-> "No hay configuración LLM activa"]}
           ELSE IF selected.config.provider \in EmbeddingProviders
           THEN {[ok |-> TRUE, selected |-> selected.id, used |-> selected.id,
                  error |-> ""]}
           ELSE IF ActiveOpenAIConfigs(later) = {}
           THEN {[ok |-> FALSE, selected |-> selected.id, used |-> 0,
                  error |-> "No hay configuración de OpenAI disponible para embeddings"]}
           ELSE {[ok |-> TRUE, selected |-> selected.id, used |-> id,
                  error |-> ""] : id \in ActiveOpenAIConfigs(later)}
           : selected \in getActiveLLMConfig(table)}

\* The embedding specification: generateEmbeddings on every small table of
\* configurations, and on every table the admin requests that are served
\* during its await can leave for the fallback SELECT.
EmbMaxConfigs == 2
EmbProviders == {"openai", "anthropic", "gemini", "ollama", "mistral"}

EmbConfigs == [provider : EmbProviders, is_active : BodyFlags,
               is_default : BodyFlags]

\* const llmConfig = await getActiveLLMConfig()
CallEmbeddings_select ==
    /\ call = NoCall
    /\ \E table \in SeqsUpTo(EmbConfigs, EmbMaxConfigs) :
         \E selected \in getActiveLLMConfig(table) :
           call' = [op |-> "getActiveLLMConfig", table |-> table,
                    selected |-> selected.id]
    /\ UNCHANGED <<ingestVars, chatVars, adminVars, audioVars>>

\* The switch on llmConfig.provider: the call throws or embeds with the
\* selected configuration, or awaits the fallback SELECT on the table as it
\* is by then.
CallEmbeddings_fallback ==
    /\ call.op = "getActiveLLMConfig"
    /\ \E later \in IF /\ call.selected # 0
                       /\ call.table[call.selected].provider
                              \notin EmbeddingProviders
                    THEN SeqsUpTo(EmbConfigs, EmbMaxConfigs)
                    ELSE {call.table} :
         \E result \in generateEmbeddings(call.table, later) :
           /\ result.selected = call.selected
           /\ call' = [op |-> "generateEmbeddings", table |-> call.table,
                       later |-> later, result |-> result]
    /\ UNCHANGED <<ingestVars, chatVars, adminVars, audioVars>>

CallEmbeddings == CallEmbeddings_select \/ CallEmbeddings_fallback

NextEmbeddings == CallEmbeddings

SpecEmbeddings == InitEmpty /\ [][NextEmbeddings]_vars


(***************************************************************************)
(* The search specification: searchDocuments on stores of a few chunks.    *)
(***************************************************************************)
SearchMaxDocs == 6
SearchMaxLimit == 2

\* The chunk with id k of a store of n chunks of notebook 1, the first
\* `near` of them embedded as <<1, 0>> and the others as <<1, 1>>; a chunk
\* with a higher id is in notebook 2.
SearchDoc(k, near, n) ==
    [id |-> k,
     content |-> <<"a">>,
     metadata |-> [notebook_id |-> IF k > n THEN 2 ELSE 1,
                   source_id |-> k, source_title |-> "A",
                   source_type |-> "text", chunk_index |-> 0],
     embedding |-> IF k <= near THEN <<1, 0>> ELSE <<1, 1>>]

SearchStores ==
    {{SearchDoc(k, near, n) : k \in 1..(n + other)} :
        near \in 0..SearchMaxDocs, n \in 0..SearchMaxDocs, other \in 0..1}

\* The limits passed: small ones, and the default no caller overrides.
SearchLimits == (1..SearchMaxLimit) \cup {DefaultSearchLimit}

CallSearch ==
    /\ call = NoCall
    /\ \E docs \in SearchStores, q \in Embeddings, notebookId \in {1, 2},
          limit \in SearchLimits :
         \E rows \in searchDocuments(docs, q, notebookId, limit) :
           call' = [op |-> "searchDocuments", docs |-> docs, q |-> q,
                    notebookId |-> notebookId, limit |-> limit,
                    result |-> rows]
    /\ UNCHANGED <<ingestVars, chatVars, adminVars, audioVars>>

NextSearch == CallSearch

SpecSearch == InitEmpty /\ [][NextSearch]_vars


(***************************************************************************)
(* The history specification: the history query of POST /send on chat logs *)
(* longer than its LIMIT, of two notebooks.                                *)
(***************************************************************************)
HistMaxLen == 12

\* The logs: the row with id k holds the k-th message written (its text
\* stands for k), a user's message and an answer in turn, of notebook 1 or 2.
HistLogs ==
    UNION {{[k \in 1..n |->
               ChatRow(k, sessions[k],
                       [type |-> IF k % 2 = 1 THEN "human" ELSE "ai",
                        content |-> k])] :
              sessions \in [1..n -> {1, 2}]} :
           n \in 0..HistMaxLen}

CallHistory ==
    /\ call = NoCall
    /\ \E rows \in HistLogs, notebookId \in {1, 2} :
         call' = [op |-> "RecentHistory", rows |-> rows,
                  notebookId |-> notebookId,
                  result |-> RecentHistory(rows, notebookId)]
    /\ UNCHANGED <<ingestVars, chatVars, adminVars, audioVars>>

NextHistory == CallHistory

SpecHistory == InitEmpty /\ [][NextHistory]_vars


(***************************************************************************)
(* The deletion specification: the two bulk deletes of the vector service  *)
(* on stores of a few chunks of two notebooks and three sources.           *)
(***************************************************************************)
DelMaxDocs == 5

\* Sources 1 and 2 belong to notebook 1 and source 3 to notebook 2.
DelOwner(sourceId) == IF sourceId = 3 THEN 2 ELSE 1

DelDoc(k, sourceId) ==
    [id |-> k,
     content |-> <<"a">>,
     metadata |-> [notebook_id |-> DelOwner(sourceId),
                   source_id |-> sourceId, source_title |-> "A",
                   source_type |-> "text", chunk_index |-> k - 1],
     embedding |-> <<1, 0>>]

DelStores ==
    UNION {{{DelDoc(k, src[k]) : k \in 1..n} : src \in [1..n -> 1..3]} :
           n \in 0..DelMaxDocs}

\* deleteDocumentsByNotebookId, and the same call again on what it left;
\* notebook 3 has no chunk in any store.
CallDeleteByNotebook ==
    /\ call = NoCall
    /\ \E docs \in DelStores, notebookId \in 1..3 :
         LET once == deleteDocumentsByNotebookId(docs, notebookId)
         IN  call' = [op |-> "deleteDocumentsByNotebookId", docs |-> docs,
                      id |-> notebookId, result |-> once,
                      again |-> deleteDocumentsByNotebookId(once, notebookId)]
    /\ UNCHANGED <<ingestVars, chatVars, adminVars, audioVars>>

\* deleteDocumentsBySourceId, and the same call again; source 4 has no chunk.
CallDeleteBySource ==
    /\ call = NoCall
    /\ \E docs \in DelStores, sourceId \in 1..4 :
         LET once == deleteDocumentsBySourceId(docs, sourceId)
         IN  call' = [op |-> "deleteDocumentsBySourceId", docs |-> docs,
                      id |-> sourceId, result |-> once,
                      again |-> deleteDocumentsBySourceId(once, sourceId)]
    /\ UNCHANGED <<ingestVars, chatVars, adminVars, audioVars>>

NextDelete == CallDeleteByNotebook \/ CallDeleteBySource

SpecDelete == InitEmpty /\ [][NextDelete]_vars


(***************************************************************************)
(* The provider adapters' conversion of the messages (generateOpenAI-,     *)
(* Anthropic-, Gemini- and OllamaResponse), and the specification that     *)
(* applies it to the arrays POST /send builds.                             *)
(***************************************************************************)
Undefined == "undefined"

\* msg.role: undefined for an object without that property.
RoleOf(msg) == IF "role" \in DOMAIN msg THEN msg.role ELSE Undefined

\* messages.map(msg => ({ role: msg.role === 'user' ? 'user' : 'assistant',
\* content: msg.content })), of the OpenAI, Anthropic and Ollama adapters.
AssistantMessages(messages) ==
    [k \in DOMAIN messages |->
       [role |-> IF RoleOf(messages[k]) = "user" THEN "user" ELSE "assistant",
        content |-> messages[k].content]]

\* messages.map(msg => ({ role: msg.role === 'user' ? 'user' : 'model',
\* parts: [{ text: msg.content }] })), of the Gemini adapter.
GeminiMessages(messages) ==
    [k \in DOMAIN messages |->
       [role |-> IF RoleOf(messages[k]) = "user" THEN "user" ELSE "model",
        parts |-> <<[text |-> messages[k].content]>>]]

\* The messages generateChatResponse hands to the provider's client.
ProviderMessages(provider, messages) ==
    IF provider = "gemini" THEN GeminiMessages(messages)
    ELSE AssistantMessages(messages)

RoleMaxLen == 5

\* The messages a history can hold: the user's, as POST /send stores them,
\* and the assistant's.
StoredMessages ==
    {HumanMessage("q"),
     AIMessage(processResponseWithCitations(<<"x">>, <<>>),
               [text |-> <<"x">>, provider |-> "openai", model |-> "m"])}

CallProvider ==
    /\ call = NoCall
    /\ \E chatHistory \in SeqsUpTo(StoredMessages, RoleMaxLen),
          provider \in ChatProviders :
         LET messages == LLMMessages(<<>>, chatHistory, "q")
         IN  call' = [op |-> "generateChatResponse", provider |-> provider,
                      messages |-> messages,
                      result |-> ProviderMessages(provider, messages)]
    /\ UNCHANGED <<ingestVars, chatVars, adminVars, audioVars>>

NextRoles == CallProvider

SpecRoles == InitEmpty /\ [][NextRoles]_vars


(***************************************************************************)
(* Notebook content generation (routes/notebooks.js): POST /:id/generate   *)
(* and generateNotebookContent.  Each await is one step.  The statements   *)
(* after require('./llmService') (the call of the model and the UPDATE to  *)
(* completed with title, description, icon, colour and questions) are      *)
(* never reached.                                                          *)
(***************************************************************************)
\* generation_status of notebook id: POST / inserts the row with 'pending'.
GenerationStatus(table, id) ==
    IF id \in DOMAIN table THEN table[id] ELSE "pending"

\* UPDATE notebooks SET generation_status = $1 WHERE id = $2: no row, no
\* change.
UpdateGeneration(table, existing, id, status) ==
    IF id \in existing
    THEN [i \in DOMAIN table \cup {id} |-> IF i = id THEN status ELSE table[i]]
    ELSE table

SetGenTask(i, task) ==
    genTasks' = [genTasks EXCEPT ![i] = task]

\* POST /:id/generate, the ownership check: 404 when the notebook is
\* missing.
NotebookGenerate_check ==
    /\ requests' = requests + 1
    /\ \E notebookId \in notebooks :
         genTasks' = Append(genTasks,
                            [notebookId |-> notebookId, pc |-> "mark"])
    /\ UNCHANGED <<notebooks, nextNotebookId, posts, puts,
                   foreignKeys,
                   nullableFlags, sources, nextSourceId, documents,
                   nextDocumentId, tasks, deletes, chatVars, adminVars, call,
                   audio, now, audioTasks, audioGet, nextAudioFile, restarts,
                   generation>>

\* UPDATE notebooks SET generation_status = 'generating', then
\* generateNotebookContent(id) is started and not awaited.
NotebookGenerate_mark(i) ==
    /\ genTasks[i].pc = "mark"
    /\ generation' = UpdateGeneration(generation, notebooks,
                                      genTasks[i].notebookId, "generating")
    /\ SetGenTask(i, [genTasks[i] EXCEPT !.pc = "select"])
    /\ UNCHANGED <<ingestVars, chatVars, adminVars, call, audio, now,
                   audioTasks, audioGet, nextAudioFile, restarts>>

\* generateNotebookContent: SELECT content, summary FROM sources WHERE
\* notebook_id = $1 AND processing_status = 'completed' LIMIT 5.  With a
\* completed source the task goes on to require('./llmService') inside the
\* try block; routes/ has no llmService module (the service is
\* services/llmService.js), so the call throws and the catch block runs.
generateNotebookContent_select(i) ==
    /\ genTasks[i].pc = "select"
    /\ SetGenTask(i, [genTasks[i] EXCEPT !.pc =
           IF CompletedSources(sources, genTasks[i].notebookId) = {}
           THEN "nosources" ELSE "catch"])
    /\ UNCHANGED <<ingestVars, chatVars, adminVars, call, audio, now,
                   audioTasks, audioGet, nextAudioFile, restarts, generation>>

\* No completed source: the status becomes failed and the task returns.
\* The catch block does the same UPDATE.
generateNotebookContent_failed(i) ==
    /\ genTasks[i].pc \in {"nosources", "catch"}
    /\ generation' = UpdateGeneration(generation, notebooks,
                                      genTasks[i].notebookId, "failed")
    /\ genTasks' = RemoveAt(genTasks, i)
    /\ UNCHANGED <<ingestVars, chatVars, adminVars, call, audio, now,
                   audioTasks, audioGet, nextAudioFile, restarts>>

generateNotebookContent ==
    \E i \in DOMAIN genTasks :
        \/ generateNotebookContent_select(i)
        \/ generateNotebookContent_failed(i)

(***************************************************************************)
(* The generation specification: one notebook, a text source, and requests *)
(* to generate its content and its audio overview, also repeated while a   *)
(* generation is running.                                                  *)
(***************************************************************************)
GenMaxRequests == 4
GenMaxSources == 1

GenCanRequest == requests < GenMaxRequests

NextGenerate ==
    \/ (GenCanRequest /\ nextSourceId + Len(posts) <= GenMaxSources
           /\ PostTextOf(IsoPostedTexts))
    \/ (\E i \in DOMAIN posts : CreateSource_insert(i))
    \/ processDocument
    \/ (GenCanRequest /\ AudioGenerate_check)
    \/ (\E i \in DOMAIN audioTasks : AudioGenerate_mark(i))
    \/ generateAudioOverview
    \/ (GenCanRequest /\ NotebookGenerate_check)
    \/ (\E i \in DOMAIN genTasks : NotebookGenerate_mark(i))
    \/ generateNotebookContent

SpecGenerate == InitChat /\ [][NextGenerate]_vars


(***************************************************************************)
(* Background jobs with a database that can fail: any pool.query of a job   *)
(* may throw.  In the try block the exception goes to the catch block; the  *)
(* UPDATE in the catch block is awaited there, so when it throws the job    *)
(* rejects (the caller's .catch logs it) and no status is written.          *)
(***************************************************************************)
\* pool.query throws in processDocument: one of the two SELECTs, the UPDATE
\* to completed or the UPDATE to failed of the catch block.
processDocument_dbError(i) ==
    /\ \/ /\ tasks[i].pc \in {"select", "notebook", "update"}
          /\ SetTask(i, [tasks[i] EXCEPT !.error = "db", !.pc = "catch"])
       \/ /\ tasks[i].pc = "catch"
          /\ SetTask(i, [tasks[i] EXCEPT !.pc = "done"])
    /\ UNCHANGED <<requests, notebooks, nextNotebookId, posts, puts,
                   foreignKeys,
                   nullableFlags, sources, nextSourceId,
                   documents, nextDocumentId, deletes, chatVars, adminVars, call,
                   audioVars>>

\* pool.query throws in generateAudioOverview: the SELECT, the UPDATE to
\* failed of a notebook without sources and the UPDATE to completed are in
\* the try block; the UPDATE to failed of the catch block is not.
generateAudioOverview_dbError(i) ==
    /\ audioTasks[i].kind = "generate"
    /\ \/ /\ audioTasks[i].pc \in {"select", "nosources", "update"}
          /\ SetAudioTask(i, [audioTasks[i] EXCEPT !.pc = "catch"])
       \/ /\ audioTasks[i].pc = "catch"
          /\ audioTasks' = RemoveAt(audioTasks, i)
    /\ UNCHANGED <<ingestVars, chatVars, adminVars, call, audio, now,
                   audioGet, nextAudioFile, restarts,
                   genVars>>

\* pool.query throws in generateNotebookContent: the SELECT and the UPDATE
\* to failed of a notebook without sources are in the try block; the UPDATE
\* to failed of the catch block is not.
generateNotebookContent_dbError(i) ==
    /\ \/ /\ genTasks[i].pc \in {"select", "nosources"}
          /\ SetGenTask(i, [genTasks[i] EXCEPT !.pc = "catch"])
       \/ /\ genTasks[i].pc = "catch"
          /\ genTasks' = RemoveAt(genTasks, i)
    /\ UNCHANGED <<ingestVars, chatVars, adminVars, call, audio, now,
                   audioTasks, audioGet, nextAudioFile, restarts, generation>>

JobMaxRequests == 3
JobMaxSources == 2

JobCanRequest == requests < JobMaxRequests

\* A step of a background job: each awaited call returns or throws.
JobStep ==
    \/ processDocument
    \/ (\E i \in DOMAIN tasks : processDocument_dbError(i))
    \/ generateAudioOverview
    \/ (\E i \in DOMAIN audioTasks : generateAudioOverview_dbError(i))
    \/ generateNotebookContent
    \/ (\E i \in DOMAIN genTasks : generateNotebookContent_dbError(i))

NextJobs ==
    \/ (JobCanRequest /\ nextSourceId + Len(posts) <= JobMaxSources
           /\ PostTextOf(IsoPostedTexts))
    \/ (\E i \in DOMAIN posts : CreateSource_insert(i))
    \/ (JobCanRequest /\ AudioGenerate_check)
    \/ (\E i \in DOMAIN audioTasks : AudioGenerate_mark(i))
    \/ (JobCanRequest /\ NotebookGenerate_check)
    \/ (\E i \in DOMAIN genTasks : NotebookGenerate_mark(i))
    \/ JobStep

\* Every awaited call eventually returns or throws and every request in
\* flight is served: a job or request that can step eventually does.
SpecJobs ==
    /\ InitChat
    /\ [][NextJobs]_vars
    /\ WF_vars(JobStep)
    /\ WF_vars(\E i \in DOMAIN posts : CreateSource_insert(i))
    /\ WF_vars(\E i \in DOMAIN audioTasks : AudioGenerate_mark(i))
    /\ WF_vars(\E i \in DOMAIN genTasks : NotebookGenerate_mark(i))


(***************************************************************************)
(* Properties.                                                             *)
(***************************************************************************)
AllNotebookIds == 1..(nextNotebookId - 1)
AllSourceIds == 1..(nextSourceId - 1)

ChunksOfSource(sourceId) ==
    {d \in documents : d.metadata.source_id = sourceId}

\* C1: whatever was ingested and deleted, searchDocuments(query, notebookId)
\* returns only chunks whose notebook_id metadata is the queried notebook,
\* and each of them was ingested from a source of that notebook.
C1_SearchIsolation ==
    \A notebookId \in AllNotebookIds, q \in Embeddings :
      \A rows \in searchDocuments(documents, q, notebookId, DefaultSearchLimit) :
        \A k \in DOMAIN rows :
          /\ rows[k].metadata.notebook_id = notebookId
          /\ \E i \in DOMAIN tasks :
               /\ tasks[i].sourceId = rows[k].metadata.source_id
               /\ tasks[i].source.notebook_id = notebookId

\* Two notebooks hold the same text with the same embedding, and a search
\* in notebook 1 returns a chunk and leaves out those of notebook 2.
C1_Witness ==
    /\ \E d1, d2 \in documents :
         /\ d1.metadata.notebook_id = 1 /\ d2.metadata.notebook_id = 2
         /\ d1.content = d2.content /\ d1.embedding = d2.embedding
    /\ \E q \in Embeddings :
         \E rows \in searchDocuments(documents, q, 1, DefaultSearchLimit) :
           /\ Len(rows) >= 1
           /\ Len(rows) < Cardinality(documents)

\* C2: a status that is completed or failed never changes again.
C2_StatusTerminal ==
    [][\A s \in DOMAIN sources \cap DOMAIN sources' :
         sources[s].processing_status \in {"completed", "failed"}
           => sources'[s].processing_status = sources[s].processing_status]_vars

\* C3: once DELETE /api/notebooks/:id has completed (the notebook's row is
\* gone), the vector store holds no chunk of that notebook, in this and in
\* every later state.
C3_NoChunksAfterNotebookDelete ==
    \A notebookId \in AllNotebookIds \ notebooks :
        MatchingDocuments(documents, notebookId) = {}

\* C4: the chunks stored for one source carry the indices 0..k-1, each once,
\* and the chunk with index i holds the i-th text splitTextIntoChunks
\* emitted for the source.
C4_DenseChunkIndex ==
    \A s \in AllSourceIds :
      LET stored == ChunksOfSource(s) IN
      /\ {d.metadata.chunk_index : d \in stored} = 0..(Cardinality(stored) - 1)
      /\ \A d \in stored :
           \E i \in DOMAIN tasks :
             /\ tasks[i].sourceId = s
             /\ d.metadata.chunk_index < Len(tasks[i].chunks)
             /\ d.content = tasks[i].chunks[d.metadata.chunk_index + 1]

\* C5: every source id has at most one processDocument task, started by the
\* request that created the source's row: there are as many tasks as rows
\* were ever created, the k-th for the k-th row.
C5_SingleAttempt ==
    /\ Len(tasks) = nextSourceId - 1
    /\ \A i \in DOMAIN tasks : tasks[i].sourceId = i
    /\ \A i, j \in DOMAIN tasks :
         tasks[i].sourceId = tasks[j].sourceId => i = j

\* A source has failed, its task has ended, and it still has the one task.
C5_Witness ==
    \E s \in DOMAIN sources :
      /\ sources[s].processing_status = "failed"
      /\ \E i \in DOMAIN tasks : tasks[i].sourceId = s /\ tasks[i].pc = "done"

ExtractionFailed(task) ==
    task.pc = "done" /\ task.error \in {"extract", "not_found"}

\* C6 as claimed: when extraction fails, or the source's row is missing,
\* processDocument ends with the source's status failed and no chunk of it.
C6_FailedAndNoChunks ==
    \A i \in DOMAIN tasks :
      ExtractionFailed(tasks[i]) =>
        /\ tasks[i].sourceId \in DOMAIN sources
        /\ sources[tasks[i].sourceId].processing_status = "failed"
        /\ ChunksOfSource(tasks[i].sourceId) = {}

\* C6 as amended: when extraction fails, or the source's row is missing,
\* processDocument ends with no chunk of the source stored and, if the
\* source's row exists, with its status failed.
C6_FailedIfPresentAndNoChunks ==
    \A i \in DOMAIN tasks :
      ExtractionFailed(tasks[i]) =>
        /\ ChunksOfSource(tasks[i].sourceId) = {}
        /\ tasks[i].sourceId \in DOMAIN sources =>
             sources[tasks[i].sourceId].processing_status = "failed"

\* An extractor threw, the task has ended, and the source's row is there.
C6_Witness ==
    \E i \in DOMAIN tasks :
      /\ tasks[i].pc = "done" /\ tasks[i].error = "extract"
      /\ tasks[i].sourceId \in DOMAIN sources

\* C7: a chat turn whose precondition check finds no source of its notebook
\* with processing_status completed is rejected (400) by that check, which
\* writes nothing to the chat log; a rejected turn has written neither a
\* user nor an AI message, and every AI message in the log was written by a
\* turn that was answered 200.
C7_RejectedWithoutCompletedSource ==
    /\ [][\A i \in DOMAIN turns :
            (/\ turns[i].pc = "sources"
             /\ turns'[i].pc # "sources"
             /\ \A s \in DOMAIN sources :
                  sources[s].notebook_id = turns[i].notebookId
                    => sources[s].processing_status # "completed")
            => /\ turns'[i].status = 400
               /\ turns'[i].pc = "done"
               /\ chat_histories' = chat_histories]_vars
    /\ [](\A i \in DOMAIN turns :
            turns[i].status = 400 =>
              /\ turns[i].pc = "done"
              /\ turns[i].userMessage = 0
              /\ turns[i].aiMessage = 0)
    /\ [](\A k \in DOMAIN chat_histories :
            chat_histories[k].message.type = "ai" =>
              \E j \in DOMAIN turns :
                /\ turns[j].aiMessage = chat_histories[k].id
                /\ turns[j].status = 200)

\* A turn was rejected on a notebook that has a source, which failed.
C7_Witness ==
    \E i \in DOMAIN turns :
      /\ turns[i].status = 400
      /\ \E s \in DOMAIN sources :
           /\ sources[s].notebook_id = turns[i].notebookId
           /\ sources[s].processing_status = "failed"

\* C8: a turn that passed its precondition check and failed in retrieval or
\* in the LLM call was answered with an error (500); it has written the
\* user's message, which is in the chat log unless the history was cleared
\* or the notebook deleted after it was written; it has written no AI
\* message, and every AI message in the log was written by another turn.
C8_FailedTurnKeepsUserMessage ==
    \A i \in DOMAIN turns :
      turns[i].failedAt \in {"search", "generate"} =>
        /\ turns[i].status = 500
        /\ turns[i].userMessage # 0
        /\ \/ turns[i].cleared
           \/ turns[i].notebookId \notin notebooks
           \/ \E k \in DOMAIN chat_histories :
                /\ chat_histories[k].id = turns[i].userMessage
                /\ chat_histories[k].session_id = turns[i].notebookId
                /\ chat_histories[k].message = HumanMessage(turns[i].message)
        /\ turns[i].aiMessage = 0
        /\ \A k \in DOMAIN chat_histories :
             chat_histories[k].message.type = "ai" =>
               \E j \in DOMAIN turns \ {i} :
                 turns[j].aiMessage = chat_histories[k].id

\* The LLM call of one turn failed while its user message and the AI
\* message of another turn are in the log.
C8_Witness ==
    \E i \in DOMAIN turns :
      /\ turns[i].failedAt = "generate"
      /\ ~turns[i].cleared
      /\ \E k \in DOMAIN chat_histories :
           chat_histories[k].id = turns[i].userMessage
      /\ \E k \in DOMAIN chat_histories :
           chat_histories[k].message.type = "ai"

\* The paragraphs of an answer that have a character other than white space.
NonBlankParagraphs(ps) ==
    SelectSeq(ps, LAMBDA p : \E k \in DOMAIN p : ~IsWhitespace(p[k]))

\* C9: for an answer of n non-blank paragraphs and m >= 1 retrieved chunks,
\* processResponseWithCitations returns n segments and n citations; segment
\* i (0-based) is the i-th non-blank paragraph with citation_id i+1, and
\* citation i has citation_id i+1 and the source_id, title and type of
\* retrieved chunk i mod m.
C9_RoundRobinCitations ==
    (call.op = "processResponseWithCitations" /\ call.relevantDocs # <<>>) =>
      LET answer == NonBlankParagraphs(call.paragraphs)
          n == Len(answer)
          m == Len(call.relevantDocs)
          r == call.result
      IN  /\ Len(r.segments) = n
          /\ Len(r.citations) = n
          /\ \A i \in 0..(n - 1) :
               LET doc == call.relevantDocs[(i % m) + 1] IN
               /\ r.segments[i + 1].text = answer[i + 1]
               /\ r.segments[i + 1].citation_id = i + 1
               /\ r.citations[i + 1].citation_id = i + 1
               /\ r.citations[i + 1].source_id = doc.metadata.source_id
               /\ r.citations[i + 1].source_title = doc.metadata.source_title
               /\ r.citations[i + 1].source_type = doc.metadata.source_type

\* Three chunks of two sources were retrieved for an answer of five
\* segments, and segments 3 and 4 cite chunks 0 and 1 again.
C9_Witness ==
    /\ call.op = "processResponseWithCitations"
    /\ Len(call.relevantDocs) = 3
    /\ Len(call.result.segments) = 5
    /\ Len(call.paragraphs) = 5
    /\ call.result.citations[4].chunk_index = call.relevantDocs[1].id
    /\ call.result.citations[5].chunk_index = call.relevantDocs[2].id
    /\ call.result.citations[3].source_id # call.result.citations[1].source_id

\* C10: at most one row of llm_configs has is_default = true.
C10_AtMostOneDefault ==
    Cardinality({id \in DOMAIN llm_configs :
                   IsTrue(llm_configs[id].is_default)}) <= 1

\* C11: on every llm_configs table the admin requests can produce,
\* getActiveLLMConfig returns only rows of the table with is_active = true;
\* when an active row is the default it returns a default row; it fails
\* exactly when no row is active.
C11_ActiveDefaultSelected ==
    \A r \in getActiveLLMConfig(llm_configs) :
      /\ r.ok => /\ r.id \in DOMAIN llm_configs
                 /\ llm_configs[r.id] = r.config
                 /\ IsTrue(r.config.is_active)
      /\ (\E id \in DOMAIN llm_configs :
            /\ IsTrue(llm_configs[id].is_active)
            /\ IsTrue(llm_configs[id].is_default))
           => (r.ok /\ IsTrue(r.config.is_default))
      /\ r.ok <=> (\E id \in DOMAIN llm_configs :
                     IsTrue(llm_configs[id].is_active))

\* C12: for every text no longer than maxChunkSize, the empty text
\* included, splitTextIntoChunks returns exactly one chunk, the text itself.
C12_ShortTextOneChunk ==
    (call.op = "splitTextIntoChunks" /\ Len(call.text) <= call.maxChunkSize) =>
      /\ call.result.outcome = "returned"
      /\ call.result.chunks = <<call.text>>

\* The empty text was split with an overlap as large as the chunk size.
C12_Witness ==
    /\ call.op = "splitTextIntoChunks"
    /\ call.text = <<>>
    /\ call.overlap >= call.maxChunkSize
    /\ Len(call.result.chunks) = 1

\* The characters of a text that are not white space, in order.
NonWhitespace(text) == SelectSeq(text, LAMBDA c : ~IsWhitespace(c))

RECURSIVE Flatten(_)
Flatten(seqs) == IF seqs = <<>> THEN <<>> ELSE Head(seqs) \o Flatten(Tail(seqs))

\* A text without its paragraph separators.
WithoutSeparators(text) == Flatten(SplitParagraphs(text))

\* The chunks in order, each slice that continues an oversized paragraph
\* without its first overlap characters.
Reassembled(result, overlap) ==
    Flatten([k \in DOMAIN result.chunks |->
               IF k \in result.continued
               THEN SubSeq(result.chunks[k], overlap + 1, Len(result.chunks[k]))
               ELSE result.chunks[k]])

\* C13: for every text and every 0 <= overlap < maxChunkSize, the chunks in
\* order, without the overlap each continuing slice repeats, give the text
\* back up to its paragraph separators: the same characters in the same
\* order once the separators are taken out, and in particular the same
\* non-blank characters.
C13_ChunksReassembleText ==
    (call.op = "splitTextIntoChunks" /\ call.overlap < call.maxChunkSize) =>
      /\ call.result.outcome = "returned"
      /\ WithoutSeparators(Reassembled(call.result, call.overlap))
           = WithoutSeparators(call.text)
      /\ NonWhitespace(Reassembled(call.result, call.overlap))
           = NonWhitespace(call.text)

\* A text of two paragraphs, the second of them cut into three slices that
\* overlap.
C13_Witness ==
    /\ call.op = "splitTextIntoChunks"
    /\ call.overlap = 1 /\ call.maxChunkSize = 2
    /\ Len(SplitParagraphs(call.text)) = 2
    /\ Cardinality(call.result.continued) = 2
    /\ Len(call.result.chunks) = 4

\* C14: a call with overlap >= maxChunkSize is rejected with an error.
C14_InvalidOverlapRejected ==
    (call.op = "splitTextIntoChunks" /\ call.overlap >= call.maxChunkSize) =>
      call.result.outcome = "error"

\* What the precedence built-in default, caller's option, stored config
\* (the last wins) gives for one parameter.
ByPrecedence(key, options, stored, default) ==
    IF key \in DOMAIN stored THEN stored[key]
    ELSE IF key \in DOMAIN options THEN options[key]
    ELSE default

\* C20: the temperature and the token limit sent to the provider are the
\* stored config's value if it sets one, else the caller's value if one was
\* supplied (0 included), else the default 0.7 / 1000.
C20_SamplingPrecedence ==
    call.op = "generateChatResponse" =>
      /\ call.request["temperature"] =
           ByPrecedence("temperature", call.options, call.stored,
                        DefaultTemperature)
      /\ call.request[TokensKey(call.provider)] =
           ByPrecedence("max_tokens", call.options, call.stored,
                        DefaultMaxTokens)

\* C17: the summary step never sends an ingestion to its catch block, and
\* when the summary is the placeholder of a failed LLM call the next step
\* still writes status completed, the extracted text and the placeholder
\* to the source's row, before any chunk is inserted.
C17_SummaryFailureDegrades ==
    [][\A i \in DOMAIN tasks :
         /\ tasks[i].pc = "summary" => tasks'[i].pc \in {"summary", "update"}
         /\ (/\ tasks[i].pc = "update"
             /\ tasks'[i].pc # "update"
             /\ tasks[i].summary = SummaryPlaceholder
             /\ tasks[i].sourceId \in DOMAIN sources)
            => /\ tasks[i].sourceId \in DOMAIN sources'
               /\ sources'[tasks[i].sourceId].processing_status = "completed"
               /\ sources'[tasks[i].sourceId].summary = SummaryPlaceholder
               /\ sources'[tasks[i].sourceId].content = tasks[i].extractedText
               /\ tasks'[i].error = "none"
               /\ ChunksOfSource(tasks[i].sourceId) = {}
               /\ documents' = documents]_vars

\* A source is completed with the placeholder as its summary, and its
\* chunk is stored.
C17_Witness ==
    \E s \in DOMAIN sources :
      /\ sources[s].processing_status = "completed"
      /\ sources[s].summary = SummaryPlaceholder
      /\ ChunksOfSource(s) # {}

\* No DELETE request for the source or for its notebook is in flight.
NoDeleteInFlight(sourceId, notebookId) ==
    \A k \in DOMAIN deletes :
      /\ ~(deletes[k].kind = "source" /\ deletes[k].id = sourceId)
      /\ ~(deletes[k].kind = "notebook" /\ deletes[k].id = notebookId)

\* C18: when the ingestion of a text source whose extracted text has at
\* most 1000 characters has ended without a failure, and neither the source
\* nor its notebook has been deleted, its status is completed and exactly
\* one chunk is stored for it, with chunk_index 0 and the extracted text as
\* its content.
C18_SmallTextOneChunk ==
    \A i \in DOMAIN tasks :
      (/\ tasks[i].pc = "done" /\ tasks[i].error = "none"
       /\ tasks[i].source.type = "text"
       /\ Len(tasks[i].extractedText) <= 1000
       /\ tasks[i].sourceId \in DOMAIN sources
       /\ tasks[i].source.notebook_id \in notebooks
       /\ NoDeleteInFlight(tasks[i].sourceId, tasks[i].source.notebook_id))
      => /\ sources[tasks[i].sourceId].processing_status = "completed"
         /\ Cardinality(ChunksOfSource(tasks[i].sourceId)) = 1
         /\ \A d \in ChunksOfSource(tasks[i].sourceId) :
              /\ d.metadata.chunk_index = 0
              /\ d.content = tasks[i].extractedText

\* The ingestion of a posted one-character text has ended without failure.
C18_Witness ==
    \E i \in DOMAIN tasks :
      /\ tasks[i].pc = "done" /\ tasks[i].error = "none"
      /\ tasks[i].source.type = "text"
      /\ tasks[i].extractedText = <<"a">>
      /\ tasks[i].sourceId \in DOMAIN sources
      /\ deletes = <<>>
      /\ \E d \in documents : d.content = <<"a">>

\* C19: once DELETE /api/sources/:id has completed (the source's row is
\* gone while its notebook is still there), the vector store holds no chunk
\* with that source_id, in this and in every later state.
C19_NoChunksAfterSourceDelete ==
    \A i \in DOMAIN tasks :
      (/\ tasks[i].sourceId \notin DOMAIN sources
       /\ tasks[i].source.notebook_id \in notebooks)
      => ChunksOfSource(tasks[i].sourceId) = {}

\* C15: when generateAudioOverview has written the audio file it computes the
\* expiry as the clock + 24 hours, and its UPDATE records that expiry with
\* the URL and status completed; a GET /:notebookId that reads the row at a
\* time after the recorded expiry answers 410 with no url in the body, and
\* one that reads a row with a URL at a time before the expiry answers 200
\* with that URL.
C15_AudioUrlExpires ==
    /\ [][\A i \in DOMAIN audioTasks :
            /\ (/\ audioTasks[i].kind = "generate"
                /\ audioTasks[i].pc = "write"
                /\ Len(audioTasks') = Len(audioTasks)
                /\ audioTasks'[i].kind = "generate"
                /\ audioTasks'[i].pc = "update")
               => audioTasks'[i].expiresAt = now + 24
            /\ (/\ audioTasks[i].kind = "generate"
                /\ audioTasks[i].pc = "update"
                /\ audioTasks' = RemoveAt(audioTasks, i)
                /\ audioTasks[i].notebookId \in notebooks)
               => audio'[audioTasks[i].notebookId] =
                      [url |-> audioTasks[i].url,
                       expires_at |-> audioTasks[i].expiresAt,
                       status |-> "completed"]]_vars
    /\ [](audioGet.op = "get" /\ audioGet.row.expires_at # NoTime =>
            /\ audioGet.at > audioGet.row.expires_at =>
                  /\ audioGet.response.code = 410
                  /\ "url" \notin DOMAIN audioGet.response.body
            /\ audioGet.at < audioGet.row.expires_at =>
                  /\ audioGet.response.code = 200
                  /\ audioGet.response.body.url = audioGet.row.url)

\* A generated audio URL was read after its expiry and answered with 410.
C15_Witness ==
    /\ audioGet.op = "get"
    /\ audioGet.row.status = "completed"
    /\ audioGet.row.url # NULL
    /\ audioGet.row.expires_at = StartTime + 24
    /\ audioGet.at > audioGet.row.expires_at
    /\ audioGet.response.code = 410

\* C16: after a crash and restart no entity is left with a status that says
\* a job is running when none is: a source with status processing has an
\* ingestion in flight and a notebook with audio status generating has an
\* audio generation in flight (otherwise nothing will ever move the status to
\* failed).
C16_NoJobLostByCrash ==
    restarts > 0 =>
        /\ \A s \in DOMAIN sources :
              sources[s].processing_status = "processing" =>
                  \E i \in DOMAIN tasks :
                      tasks[i].sourceId = s /\ tasks[i].pc # "done"
        /\ \A n \in DOMAIN audio :
              audio[n].status = "generating" =>
                  \E i \in DOMAIN audioTasks :
                      /\ audioTasks[i].kind = "generate"
                      /\ audioTasks[i].notebookId = n

\* C21: when the configuration selected by getActiveLLMConfig has a provider
\* without embedding support, generateEmbeddings embeds with an OpenAI
\* configuration that is active and the default one, and throws when the
\* table, as the fallback SELECT reads it, has no such configuration; the
\* configuration it embeds with is never inactive.
C21_FallbackToDefaultOpenAI ==
    (/\ call.op = "generateEmbeddings"
     /\ call.result.selected # 0
     /\ call.table[call.result.selected].provider \notin {"openai", "ollama"})
    => LET defaults == {id \in DOMAIN call.later :
                            /\ call.later[id].provider = "openai"
                            /\ IsTrue(call.later[id].is_active)
                            /\ IsTrue(call.later[id].is_default)}
       IN  /\ defaults # {} => call.result.ok /\ call.result.used \in defaults
           /\ defaults = {} => ~call.result.ok
           /\ call.result.ok
                => IsTrue(call.later[call.result.used].is_active)

\* C22: the chat log of a notebook is append-only: in every step that leaves
\* the notebook in place, its log as it was is a prefix of the log as it
\* becomes, so no message is removed, changed or reordered.
C22_ChatLogAppendOnly ==
    [][\A n \in notebooks \cap notebooks' :
         LET before == SelectSeq(chat_histories, LAMBDA r : r.session_id = n)
             after == SelectSeq(chat_histories', LAMBDA r : r.session_id = n)
         IN  /\ Len(before) <= Len(after)
             /\ SubSeq(after, 1, Len(before)) = before]_vars

\* C23: every citation built by processResponseWithCitations carries an
\* excerpt of at most 200 characters, however long the cited chunk is.
C23_ExcerptAtMost200 ==
    call.op = "processResponseWithCitations" =>
        \A k \in DOMAIN call.result.citations :
            Len(call.result.citations[k].excerpt) <= 200

\* C24: a generateAudioOverview task whose SELECT finds no completed source
\* of its notebook makes no LLM call: its only further step is the UPDATE
\* that sets the audio status to failed and leaves the URL and the expiry as
\* they were; and every generateAudioOverview task ends by writing completed
\* or failed.
C24_AudioNeedsCompletedSource ==
    [][\A i \in DOMAIN audioTasks :
         LET task == audioTasks[i]
             id == task.notebookId
             stepped == /\ Len(audioTasks') = Len(audioTasks)
                        /\ audioTasks'[i] # task
             ended == /\ Len(audioTasks') = Len(audioTasks) - 1
                      /\ audioTasks' = RemoveAt(audioTasks, i)
         IN  task.kind = "generate" =>
               /\ (/\ task.pc = "select"
                   /\ stepped
                   /\ ~ \E s \in DOMAIN sources :
                          /\ sources[s].notebook_id = id
                          /\ sources[s].processing_status = "completed")
                  => audioTasks'[i].pc = "nosources"
               /\ task.pc = "nosources" =>
                    /\ ~stepped
                    /\ (ended /\ id \in notebooks) =>
                          /\ audio'[id].status = "failed"
                          /\ audio'[id].url = AudioRow(audio, id).url
                          /\ audio'[id].expires_at =
                                 AudioRow(audio, id).expires_at
               /\ (ended /\ id \in notebooks) =>
                     audio'[id].status \in {"completed", "failed"}]_vars

\* A generation that found no completed source has ended: the status is
\* failed and no URL or expiry is recorded.
C24_Witness ==
    /\ audioTasks = <<>>
    /\ 1 \in DOMAIN audio
    /\ audio[1] = [url |-> NULL, expires_at |-> NoTime, status |-> "failed"]
    /\ \A s \in DOMAIN sources : sources[s].processing_status # "completed"

\* The successions of positions of one ingestion task.
C25_Order ==
    {<<"select", "notebook">>, <<"select", "catch">>,
     <<"notebook", "extract">>,
     <<"extract", "summary">>, <<"extract", "catch">>,
     <<"summary", "update">>,
     <<"update", "insert">>, <<"update", "done">>,
     <<"insert", "insert">>, <<"insert", "done">>, <<"insert", "catch">>,
     <<"catch", "done">>}

\* C25: the steps of one ingestion task are strictly ordered: extraction,
\* then the summary, then the write of status, text and summary, then the
\* chunks one by one in the order of their index, each inserted by the step
\* that follows the insert of the one before; a chunk of the source is
\* inserted by no other step, and a task that has written failed (or has
\* finished) takes no further step.
C25_IngestionStepsOrdered ==
    [][\A i \in DOMAIN tasks :
         LET t == tasks[i]
             u == tasks'[i]
             inserted == {d \in documents' \ documents :
                             d.metadata.source_id = t.sourceId}
         IN  /\ u # t => <<t.pc, u.pc>> \in C25_Order
             /\ t.pc = "done" => u = t
             /\ u.index # t.index =>
                   t.pc = "insert" /\ u.index = t.index + 1 /\ inserted # {}
             /\ \A d \in inserted :
                   /\ t.pc = "insert"
                   /\ d.metadata.chunk_index = t.index
                   /\ d.content = t.chunks[t.index + 1]
                   /\ u.index = t.index + 1
                   /\ t.sourceId \in DOMAIN sources =>
                        sources[t.sourceId].processing_status # "processing"]_vars

\* A task has inserted the two chunks of a long text, one after the other,
\* and has finished.
C25_Witness ==
    \E i \in DOMAIN tasks :
        /\ tasks[i].pc = "done"
        /\ tasks[i].error = "none"
        /\ tasks[i].index = 2
        /\ \E d \in documents : /\ d.metadata.source_id = tasks[i].sourceId
                                /\ d.metadata.chunk_index = 1

\* C26: when a task has ended with an exception and neither its source nor
\* the source's notebook has been deleted, the source's status is failed and
\* the chunks stored for it are exactly those inserted before the exception,
\* unchanged: chunks 0..k-1 when the insert of chunk k threw, none when the
\* exception came before the first insert.
C26_PartialChunksKept ==
    \A i \in DOMAIN tasks :
      (/\ tasks[i].pc = "done" /\ tasks[i].error # "none"
       /\ tasks[i].sourceId \in DOMAIN sources
       /\ sources[tasks[i].sourceId].notebook_id \in notebooks
       /\ NoDeleteInFlight(tasks[i].sourceId,
                           sources[tasks[i].sourceId].notebook_id))
      => LET stored == {d \in documents :
                          d.metadata.source_id = tasks[i].sourceId}
         IN  /\ sources[tasks[i].sourceId].processing_status = "failed"
             /\ Cardinality(stored) = tasks[i].index
             /\ {d.metadata.chunk_index : d \in stored} =
                    0..(tasks[i].index - 1)
             /\ \A d \in stored :
                  d.content = tasks[i].chunks[d.metadata.chunk_index + 1]
             /\ tasks[i].error # "insert" => stored = {}

\* The insert of the second chunk of a long text threw: the first chunk is
\* stored and the source has failed.
C26_Witness ==
    \E i \in DOMAIN tasks :
      /\ tasks[i].pc = "done" /\ tasks[i].error = "insert"
      /\ tasks[i].index = 1
      /\ tasks[i].sourceId \in DOMAIN sources
      /\ sources[tasks[i].sourceId].processing_status = "failed"
      /\ \E d \in documents : /\ d.metadata.source_id = tasks[i].sourceId
                              /\ d.metadata.chunk_index = 0

\* C27: every started background job reaches a terminal status when every
\* awaited call returns or throws and the process does not crash: a source
\* with status processing eventually has status completed or failed, and a
\* notebook with audio status generating eventually has audio status
\* completed or failed, and a notebook with generation_status generating
\* eventually has generation_status completed or failed.
C27_JobsReachTerminalStatus ==
    /\ \A s \in 1..JobMaxSources :
         (s \in DOMAIN sources /\ sources[s].processing_status = "processing")
           ~> (/\ s \in DOMAIN sources
               /\ sources[s].processing_status \in {"completed", "failed"})
    /\ \A n \in 1..1 :
         (n \in DOMAIN audio /\ audio[n].status = "generating")
           ~> (/\ n \in DOMAIN audio
               /\ audio[n].status \in {"completed", "failed"})
    /\ \A n \in 1..1 :
         (GenerationStatus(generation, n) = "generating")
           ~> (GenerationStatus(generation, n) \in {"completed", "failed"})

\* The r-th smallest element of a set of numbers.
C28_Nth(S, r) == CHOOSE x \in S : Cardinality({y \in S : y < x}) = r - 1

\* C28: for 0 <= overlap < maxChunkSize splitTextIntoChunks returns, and
\* each paragraph of length L > maxChunkSize (the r-th such paragraph giving
\* the r-th run of slices in the chunks) produces exactly
\* ceil(L / (maxChunkSize - overlap)) slices, slice j being the characters of
\* the paragraph from offset j * (maxChunkSize - overlap), at most
\* maxChunkSize of them; and the paragraph buffered just before it is the
\* end of the chunk that precedes the first slice.
C28_OversizeParagraphSliced ==
    (/\ call.op = "splitTextIntoChunks"
     /\ call.overlap < call.maxChunkSize
     /\ Len(call.text) > call.maxChunkSize)
    => LET max == call.maxChunkSize
           step == call.maxChunkSize - call.overlap
           ps == SplitParagraphs(call.text)
           chunks == call.result.chunks
           over == {k \in DOMAIN ps : Len(ps[k]) > max}
           firsts == {m \in DOMAIN chunks :
                        /\ m \notin call.result.continued
                        /\ m + 1 \in call.result.continued}
       IN  /\ call.result.outcome = "returned"
           /\ Cardinality(firsts) = Cardinality(over)
           /\ \A r \in 1..Cardinality(over) :
                LET k == C28_Nth(over, r)
                    m == C28_Nth(firsts, r)
                    L == Len(ps[k])
                    n == (L + step - 1) \div step
                IN  /\ m + n - 1 <= Len(chunks)
                    /\ \A j \in 0..(n - 1) :
                         /\ chunks[m + j] =
                              SubSeq(ps[k], j * step + 1,
                                     IF j * step + max < L
                                     THEN j * step + max ELSE L)
                         /\ j > 0 => (m + j) \in call.result.continued
                    /\ (m + n) \notin call.result.continued
                    /\ (k > 1 /\ ps[k - 1] # <<>> /\ Len(ps[k - 1]) <= max) =>
                         /\ m > 1
                         /\ (m - 1) \notin call.result.continued
                         /\ Len(chunks[m - 1]) >= Len(ps[k - 1])
                         /\ SubSeq(chunks[m - 1],
                                   Len(chunks[m - 1]) - Len(ps[k - 1]) + 1,
                                   Len(chunks[m - 1])) = ps[k - 1]

\* A short paragraph is buffered, then a paragraph of three characters is
\* cut with maxChunkSize 2 and overlap 1 into three slices.
C28_Witness ==
    /\ call.op = "splitTextIntoChunks"
    /\ call.maxChunkSize = 2 /\ call.overlap = 1
    /\ call.text = <<"a", NL, NL, "b", "a", "b">>
    /\ call.result.chunks = <<<<"a">>, <<"b", "a">>, <<"a", "b">>, <<"b">>>>

\* x is at least as similar to the query q as y: the cosines compared by
\* their squares (no component is negative).
C29_AtLeastAsSimilar(q, x, y) ==
    (q[1] * x[1] + q[2] * x[2]) * (q[1] * x[1] + q[2] * x[2])
        * (y[1] * y[1] + y[2] * y[2])
    >= (q[1] * y[1] + q[2] * y[2]) * (q[1] * y[1] + q[2] * y[2])
        * (x[1] * x[1] + x[2] * x[2])

\* C29: searchDocuments returns at most limit rows, each a different chunk
\* of the queried notebook, in the order of non-increasing similarity to the
\* query, and every chunk of the notebook that is left out is at most as
\* similar as each returned one; rows are left out only when limit rows are
\* returned.
C29_TopKBySimilarity ==
    call.op = "searchDocuments" =>
      LET rows == call.result
          own == {d \in call.docs : d.metadata.notebook_id = call.notebookId}
          returned == {rows[k] : k \in DOMAIN rows}
      IN  /\ Len(rows) <= call.limit
          /\ returned \subseteq own
          /\ Cardinality(returned) = Len(rows)
          /\ Len(rows) < call.limit => returned = own
          /\ \A k \in 1..(Len(rows) - 1) :
               C29_AtLeastAsSimilar(call.q, rows[k].embedding,
                                    rows[k + 1].embedding)
          /\ \A d \in own \ returned : \A k \in DOMAIN rows :
               C29_AtLeastAsSimilar(call.q, rows[k].embedding, d.embedding)

\* A search with the default limit in a notebook of six chunks returns five
\* and leaves out one that is less similar than the last returned.
C29_Witness ==
    /\ call.op = "searchDocuments"
    /\ call.limit = 5
    /\ Len(call.result) = 5
    /\ \E d \in call.docs :
         /\ d.metadata.notebook_id = call.notebookId
         /\ \A k \in 1..5 : call.result[k] # d
         /\ ~C29_AtLeastAsSimilar(call.q, d.embedding, call.result[5].embedding)
    /\ \E d \in call.docs : d.metadata.notebook_id # call.notebookId

\* C30: the history read for a chat turn is the min(10, n) last messages of
\* the n rows of the turn's notebook, oldest first, and so holds no message
\* of another notebook.
C30_HistoryIsLastTen ==
    call.op = "RecentHistory" =>
      LET own == SelectSeq(call.rows,
                           LAMBDA r : r.session_id = call.notebookId)
          n == Len(own)
          m == IF n < 10 THEN n ELSE 10
      IN  /\ Len(call.result) = m
          /\ \A j \in 1..m : call.result[j] = own[n - m + j].message
          /\ \A j \in 1..m : \A k \in DOMAIN call.rows :
               call.rows[k].message = call.result[j] =>
                   call.rows[k].session_id = call.notebookId

\* A notebook with eleven messages, mixed with one of another notebook: the
\* history starts at the notebook's second message.
C30_Witness ==
    /\ call.op = "RecentHistory"
    /\ Len(call.rows) = 12
    /\ call.notebookId = 1
    /\ call.rows[1].session_id = 1
    /\ Cardinality({k \in DOMAIN call.rows : call.rows[k].session_id = 2}) = 1
    /\ Len(call.result) = 10
    /\ call.result[1].content > 1

\* C31: deleteDocumentsByNotebookId and deleteDocumentsBySourceId remove the
\* chunks whose metadata matches and no other, leave the others as they
\* were, also when nothing matches, and a second call changes nothing.
C31_Matches(d) ==
    IF call.op = "deleteDocumentsByNotebookId"
    THEN d.metadata.notebook_id = call.id
    ELSE d.metadata.source_id = call.id

C31_BulkDeleteExact ==
    call.op \in {"deleteDocumentsByNotebookId", "deleteDocumentsBySourceId"} =>
      /\ \A d \in call.docs : d \in call.result <=> ~C31_Matches(d)
      /\ call.result \subseteq call.docs
      /\ call.again = call.result

\* A delete by source that removes two chunks of a store that also holds a
\* chunk of the same notebook's other source and one of the other notebook.
C31_Witness ==
    /\ call.op = "deleteDocumentsBySourceId"
    /\ call.id = 2
    /\ Cardinality(call.docs \ call.result) = 2
    /\ \E d \in call.result : d.metadata.source_id = 1
    /\ \E d \in call.result : d.metadata.notebook_id = 2

\* C32: a source whose status is completed has every chunk of its extracted
\* text in the vector store: chunk i of splitTextIntoChunks at chunk_index i.
C32_CompletedHasAllChunks ==
    \A i \in DOMAIN tasks :
      (/\ tasks[i].sourceId \in DOMAIN sources
       /\ sources[tasks[i].sourceId].processing_status = "completed")
      => \A k \in DOMAIN tasks[i].chunks :
           \E d \in ChunksOfSource(tasks[i].sourceId) :
             /\ d.metadata.chunk_index = k - 1
             /\ d.content = tasks[i].chunks[k]

\* C33: for every text and every overlap < maxChunkSize, no chunk returned
\* by splitTextIntoChunks is longer than maxChunkSize, and for a text longer
\* than maxChunkSize no chunk is empty.
C33_ChunksWithinMaxSize ==
    (call.op = "splitTextIntoChunks" /\ call.overlap < call.maxChunkSize) =>
      /\ call.result.outcome = "returned"
      /\ \A k \in DOMAIN call.result.chunks :
           /\ Len(call.result.chunks[k]) <= call.maxChunkSize
           /\ Len(call.text) > call.maxChunkSize
                => call.result.chunks[k] # <<>>

\* C34: the sequence a chat turn passes to generateChatResponse is the system
\* message, the history and the current user message, which is its last
\* element and occurs nowhere else: the history read by the turn holds only
\* rows written before the turn's own user message (the last ten of them).
C34_HistoryRead(i) ==
    /\ i \in DOMAIN turns'
    /\ turns[i].pc = "history"
    /\ turns'[i].pc = "generate"

C34_UserMessageOnceAndLast ==
    /\ [](\A i \in DOMAIN turns :
            turns[i].llmMessages # <<>> =>
              LET sent == turns[i].llmMessages
              IN  /\ sent[Len(sent)] = UserMessage(turns[i].message)
                  /\ sent[1].role = "system"
                  /\ SubSeq(sent, 2, Len(sent) - 1) = turns[i].chatHistory)
    /\ [][\A i \in DOMAIN turns :
            C34_HistoryRead(i) =>
              LET before == SelectSeq(chat_histories,
                              LAMBDA r : /\ r.session_id = turns[i].notebookId
                                         /\ r.id < turns[i].userMessage)
                  last == LastN(before, HistoryLimit)
              IN  turns'[i].chatHistory =
                    [k \in DOMAIN last |-> last[k].message]]_vars

\* C35: of the messages of a chat turn, those the human wrote (stored with
\* type human, or the current user message) reach the provider with the
\* role user, and the stored ai messages with the role assistant (model for
\* gemini).
C35_HumanWritten(msg) ==
    \/ RoleOf(msg) = "user"
    \/ ("type" \in DOMAIN msg /\ msg.type = "human")

C35_RolesPreserveAuthorship ==
    call.op = "generateChatResponse" =>
      \A k \in DOMAIN call.messages :
        /\ C35_HumanWritten(call.messages[k]) => call.result[k].role = "user"
        /\ ("type" \in DOMAIN call.messages[k]
              /\ call.messages[k].type = "ai")
             => call.result[k].role =
                  (IF call.provider = "gemini" THEN "model" ELSE "assistant")

\* C36: in every prefix of a notebook's chat log there are at least as many
\* human messages as ai messages.
C36_CountType(log, n, type) ==
    Cardinality({k \in 1..n : log[k].message.type = type})

C36_HumanBeforeAI ==
    \A notebookId \in AllNotebookIds :
      LET log == SelectSeq(chat_histories,
                           LAMBDA r : r.session_id = notebookId)
      IN  \A n \in 0..Len(log) :
            C36_CountType(log, n, "human") >= C36_CountType(log, n, "ai")

\* C37: in every state of a notebook's audio columns, a completed status
\* comes with an audio_overview_url, and an audio_overview_url with an
\* audio_url_expires_at.
C37_AudioDescriptorConsistent ==
    \A id \in DOMAIN audio :
      /\ audio[id].status = "completed" => audio[id].url # NULL
      /\ audio[id].url # NULL => audio[id].expires_at # NoTime

\* A second generation of a notebook has completed and no request is in
\* flight.
C37_Witness ==
    \E id \in DOMAIN audio :
      /\ audio[id].status = "completed"
      /\ audio[id].url # NULL
      /\ nextAudioFile > 2
      /\ audioTasks = <<>>

\* C38: a chat turn whose retrieval returned no chunk and whose answer came
\* back does not fail, unless its notebook was deleted meanwhile: its ai
\* message is stored with one segment for each non-blank paragraph of the
\* answer, no segment has a citation_id, and the list of citations is empty.
C38_Stores(i) ==
    /\ i \in DOMAIN turns'
    /\ turns[i].pc = "saveAI"
    /\ turns'[i].pc = "done"
    /\ turns[i].relevantDocs = <<>>
    /\ turns[i].notebookId \in notebooks

C38_EmptyRetrievalAnswers ==
    [][\A i \in DOMAIN turns :
         C38_Stores(i) =>
           /\ turns'[i].status = 200
           /\ turns'[i].failedAt = "none"
           /\ Len(chat_histories') = Len(chat_histories) + 1
           /\ LET row == chat_histories'[Len(chat_histories')]
                  processed == row.message.content[2]
                  answer == NonBlankParagraphs(
                              SplitOnBlankLine(turns[i].aiResponse.text, 1))
              IN  /\ row.id = turns'[i].aiMessage
                  /\ row.session_id = turns[i].notebookId
                  /\ row.message.type = "ai"
                  /\ processed.citations = <<>>
                  /\ Len(processed.segments) = Len(answer)
                  /\ \A k \in DOMAIN processed.segments :
                       /\ DOMAIN processed.segments[k] = {"text"}
                       /\ processed.segments[k].text = answer[k]]_vars

\* A turn that found no chunk has answered 200 and its two segments are in
\* the log.
C38_Witness ==
    \E i \in DOMAIN turns :
      /\ turns[i].pc = "done" /\ turns[i].status = 200
      /\ turns[i].relevantDocs = <<>>
      /\ \E k \in DOMAIN chat_histories :
           /\ chat_histories[k].id = turns[i].aiMessage
           /\ Len(chat_histories[k].message.content[2].segments) = 2
           /\ chat_histories[k].message.content[2].citations = <<>>

\* C39: no admin request removes the row of llm_configs that is the default
\* at the moment it is removed (a delete request for the default row is
\* rejected and changes nothing), also with create and update requests in
\* between.
C39_DefaultNeverDeleted ==
    [][\A id \in DOMAIN llm_configs :
         id \notin DOMAIN llm_configs'
           => ~IsTrue(llm_configs[id].is_default)]_vars

\* C40: while a content generation or an audio generation of a notebook is
\* running, the status of that kind reads generating; completed or failed
\* is visible only when no task of that notebook and kind is running, also
\* when generation was requested again before the earlier task ended.
C40_AudioRunning(id) ==
    \E i \in DOMAIN audioTasks :
      /\ audioTasks[i].kind = "generate"
      /\ audioTasks[i].notebookId = id
      /\ audioTasks[i].pc # "mark"

C40_ContentRunning(id) ==
    \E i \in DOMAIN genTasks :
      /\ genTasks[i].notebookId = id
      /\ genTasks[i].pc # "mark"

C40_GeneratingWhileRunning ==
    \A id \in notebooks :
      /\ C40_AudioRunning(id) => AudioRow(audio, id).status = "generating"
      /\ C40_ContentRunning(id) =>
           GenerationStatus(generation, id) = "generating"


====
